---------------------------- MODULE Spec2Model ----------------------------
(***************************************************************************)
(* Model of the sensor core of RIOT-rs:                                    *)
(*   - SensorSignaling  (riot-rs-sensors/src/sensor.rs, lines 124-162)     *)
(*   - ReadingWaiter    (riot-rs-sensors/src/sensor.rs, lines 164-198)     *)
(*   - StateAtomic      (riot-rs-sensors/src/sensor.rs, lines 259-315)     *)
(*   - GenericPushButton (riot-rs-builtin-sensors/src/push_buttons.rs)     *)
(*   - Lis3dhI2c        (riot-rs-builtin-sensors/src/lis3dh.rs)            *)
(*   - RingBufferIndex  (lib/rbi/src/lib.rs)                               *)
(*                                                                         *)
(* SensorSignaling is a Signal (field trigger) and a Channel of capacity 1 *)
(* (field reading_channel), both from embassy_sync.  Their state is        *)
(* modelled as records, their methods as operators that return the new     *)
(* record together with the set of tasks whose waker is woken.  Tasks run  *)
(* on a cooperative executor: a task that returned Poll::Pending is parked *)
(* and is polled again only after its waker has been woken.                *)
(***************************************************************************)
EXTENDS Integers, Sequences, FiniteSets, TLC

VARIABLES
    trigger,          \* SensorSignaling.trigger: [state, waker]
    reading_channel,  \* SensorSignaling.reading_channel: [queue, receiver_waker, senders_waker]
    pc,               \* per task: the call the task is in ("idle" when in none)
    parked,           \* per task: TRUE when its last poll returned Pending and no wake came since
    sending,          \* the message held by the driver's pending send future
    got,              \* per application task: the last result a ReadingWaiter resolved to
    hist,             \* history: the last HistLen completed calls on the instance
    nTrig,            \* history: number of trigger_measurement calls
    nWake,            \* history: number of wait_for_trigger completions
    nCoalesced,       \* history: number of trigger_measurement calls issued while the wake was already signaled
    batch,            \* history: trigger_measurement calls since the last wait_for_trigger completion
    lastBatch,        \* history: value of batch consumed by the last wait_for_trigger completion
    wakesSinceTrig,   \* history: wait_for_trigger completions since the last trigger_measurement
    measStale,        \* history: the driver's measurement in progress started before the latest trigger
    trk,              \* history: progress of the tracked trigger ("none", "armed", "pushed")
    trkWait,          \* history: the first wait_for_reading called after the tracked trigger
    trkGot,           \* history: that wait returned the first reading signaled after the tracked trigger
    trkClean,         \* history: no trigger_measurement was issued after the tracked one so far
    nMarked,          \* history: number of messages marked for the duplication check (0 or 1)
    markDeliveries,   \* history: number of ReadingWaiter completions that returned the marked message
    state,            \* StateAtomic.state: the stored byte (AtomicU8)
    call,             \* per context: the StateAtomic call in progress
    done,             \* history: the last completed StateAtomic call
    button,           \* GenericPushButton.button: the Mutex<Option<I>> [value, locked]
    driver,           \* the driver under study ("none" when the system has none)
    initialized,      \* Lis3dhI2c.initialized / InternalTemp.initialized (AtomicBool)
    enabled,          \* Lis3dhI2c.enabled / InternalTemp.enabled (AtomicBool)
    temp,             \* InternalTemp.temp: the Mutex<Option<Temp>> [value, locked]
    channel,          \* InternalTemp.channel: the queued notifications
    lower_threshold_enabled,  \* InternalTemp.lower_threshold_enabled (AtomicBool)
    wpc,              \* the step the temp_watcher task is in ("none" before it is spawned)
    wdone,            \* history: how the last round of temp_watcher ended
    accel,            \* Lis3dhI2c.accel: the Mutex<Option<InnerLis3dh>> [value, locked]
    dpc,              \* per context: the step of the driver call the context is in
    ddone,            \* history: the last completed driver call
    faulted,          \* history: a bus transaction of the driver has failed
    rb,               \* RingBufferIndex: [reads, writes, mask]
    size,             \* the size the RingBufferIndex was created with
    overflow_checks,  \* build profile: arithmetic overflow panics (debug) or wraps (release)
    rbdone,           \* history: the last completed RingBufferIndex call
    cycles,           \* history: number of put-then-get rounds completed
    fresh,            \* history: no get was called on the RingBufferIndex so far
    rbprev,           \* history: the RingBufferIndex before its last call
    fifo,             \* history: the indexes returned by put and not yet returned by get
    waiter,           \* the ReadingWaiter held by the application task: [variant, err]
    built,            \* history: the ReadingWaiter as it was constructed
    yielded,          \* history: the results the polls of the ReadingWaiter returned as Ready
    signaled,         \* history: the results passed to signal_reading / signal_reading_err
    delivered,        \* history: number of awaited wait_for_reading calls that returned a result
    suspended,        \* history: the driver's pending send has returned Pending
    resumed           \* history: a send that had returned Pending has stored its result

sigVars == <<trigger, reading_channel, pc, parked, sending, got>>
ghostVars == <<nTrig, nWake, nCoalesced, batch, lastBatch, wakesSinceTrig, measStale,
               trk, trkWait, trkGot, trkClean, nMarked, markDeliveries>>
stVars == <<state, call, done>>
itVars == <<driver, temp, channel, lower_threshold_enabled, wpc, wdone>>
drvVars == <<button, initialized, enabled, accel, dpc, ddone, faulted, itVars>>
rbVars == <<rb, size, overflow_checks, rbdone, cycles, fresh, rbprev, fifo>>
rwVars == <<waiter, built, yielded, signaled, delivered, suspended, resumed>>
vars == <<sigVars, hist, ghostVars, stVars, drvVars, rbVars, rwVars>>

----------------------------------------------------------------------------
(* Bounds of the model *)

MaxTriggers == 3
HistLen == 4

(* Capacity of reading_channel: Channel<_, _, 1> *)
(* (The mutant with room for two results precedes it.) *)
ChannelCapTwo == 1 + 1

ChannelCap == 1

----------------------------------------------------------------------------
(* Tasks and values *)

App == "app"
App2 == "app2"
Driver == "drv"
Tasks == {App, App2, Driver}
NoTask == "none"

\* ReadingResult<PhysicalValues>: Ok(reading) or Err(ReadingError)
Readings == {"A", "B"}
ReadingErrors == {"NonEnabled", "SensorAccess"}
NoResult == <<"None">>

\* A message in flight: the result and its history flags.
\*   stale : the measurement that produced it started before the latest trigger
\*   old   : it was placed in the slot before the latest trigger
\*   tfirst: it is the first message placed in the slot after the tracked trigger
\*   mark  : it is the message followed by the duplication check
Msg(r, st, tf, mk) == [res |-> r, stale |-> st, old |-> FALSE, tfirst |-> tf, mark |-> mk]
NoMsg == [res |-> NoResult, stale |-> FALSE, old |-> FALSE, tfirst |-> FALSE, mark |-> FALSE]


----------------------------------------------------------------------------
(* embassy_sync primitives, as used by SensorSignaling.                      *)
(* Every operator returns the new primitive state and the tasks it wakes.    *)

\* WakerRegistration::register: keeps a waker that would wake the same task,
\* otherwise replaces the registered waker and wakes the one it replaces.
Register(reg, t) ==
    IF reg = t THEN [reg |-> reg, wake |-> {}]
    ELSE [reg |-> t, wake |-> {reg} \ {NoTask}]

\* Signal::new() / Channel::new()
SignalNew == [state |-> "None", waker |-> NoTask]
ChannelNew == [queue |-> <<>>, receiver_waker |-> NoTask, senders_waker |-> NoTask]

IsFull(ch) == Len(ch.queue) = ChannelCap

\* Signal::signal(()): the state becomes Signaled; a waiting waker is woken.
SignalSignal(sg) ==
    [sg |-> [state |-> "Signaled", waker |-> NoTask],
     wake |-> IF sg.state = "Waiting" THEN {sg.waker} ELSE {}]

\* Signal::wait() polled by task t: takes a Signaled value (state back to None),
\* otherwise stores t's waker and returns Pending.
SignalPollWait(sg, t) ==
    IF sg.state = "Signaled"
    THEN [sg |-> [state |-> "None", waker |-> NoTask], ready |-> TRUE, wake |-> {}]
    ELSE [sg |-> [state |-> "Waiting", waker |-> t], ready |-> FALSE,
          wake |-> IF sg.state = "Waiting" /\ sg.waker # t THEN {sg.waker} ELSE {}]

\* Channel::clear(): wakes a suspended sender when the queue was full, then
\* drops every queued message.
ChannelClear(ch) ==
    [ch |-> [ch EXCEPT !.queue = <<>>,
                       !.senders_waker = IF IsFull(ch) THEN NoTask ELSE @],
     wake |-> IF IsFull(ch) THEN {ch.senders_waker} \ {NoTask} ELSE {}]

\* SendFuture::poll by task t: pushes the message when there is room and wakes
\* the receiver; otherwise registers t as the suspended sender.
ChannelPollSend(ch, m, t) ==
    IF ~IsFull(ch)
    THEN [ch |-> [ch EXCEPT !.queue = Append(@, m), !.receiver_waker = NoTask],
          ready |-> TRUE,
          wake |-> {ch.receiver_waker} \ {NoTask}]
    ELSE LET r == Register(ch.senders_waker, t)
         IN [ch |-> [ch EXCEPT !.senders_waker = r.reg], ready |-> FALSE, wake |-> r.wake]

\* ReceiveFuture::poll by task t: wakes a suspended sender when the queue is
\* full, then pops the front message; on an empty queue registers t as the
\* receiver and returns Pending.
ChannelPollReceive(ch, t) ==
    IF ch.queue # <<>>
    THEN [ch |-> [ch EXCEPT !.queue = Tail(@),
                            !.senders_waker = IF IsFull(ch) THEN NoTask ELSE @],
          ready |-> TRUE, msg |-> Head(ch.queue),
          wake |-> IF IsFull(ch) THEN {ch.senders_waker} \ {NoTask} ELSE {}]
    ELSE LET r == Register(ch.receiver_waker, t)
         IN [ch |-> [ch EXCEPT !.receiver_waker = r.reg], ready |-> FALSE,
             msg |-> NoMsg, wake |-> r.wake]

\* The executor: waking a task makes it runnable again.
WakeAll(p, ws) == [t \in Tasks |-> IF t \in ws THEN FALSE ELSE p[t]]
Park(p, t) == [p EXCEPT ![t] = TRUE]

----------------------------------------------------------------------------
(* History bookkeeping *)

\* The window of the last HistLen completed calls.
Log(e) ==
    LET h == Append(hist, e)
    IN IF Len(h) > HistLen THEN Tail(h) ELSE h

\* The call a step completes, read off the step: a trigger_measurement, a
\* wait_for_trigger completion, a completed send, a resolved ReadingWaiter.
NoCall == <<"none">>
CompletedCall ==
    IF nTrig' # nTrig THEN <<"trigger">>
    ELSE IF nWake' # nWake THEN <<"wait_for_trigger">>
    ELSE IF pc[Driver] = "signal_reading" /\ pc'[Driver] = "idle" THEN <<"signal", sending.res>>
    ELSE IF \E t \in {App, App2} : pc[t] = "wait_for_reading" /\ pc'[t] = "idle"
         THEN LET t == CHOOSE u \in {App, App2} : pc[u] = "wait_for_reading" /\ pc'[u] = "idle"
              IN <<"reading", got'[t].res>>
    ELSE NoCall

\* A step of the SensorSignaling instance leaves the rest of the model alone;
\* the history window follows the step (LogStep) or is switched off (NoLog).
LogStep ==
    /\ hist' = IF CompletedCall = NoCall THEN hist ELSE Log(CompletedCall)
    /\ UNCHANGED <<stVars, drvVars, rbVars, rwVars>>
NoLog == UNCHANGED <<hist, stVars, drvVars, rbVars, rwVars>>

\* A trigger makes every message and measurement in flight one of "before the
\* latest trigger".
Outdate(m) == [m EXCEPT !.stale = TRUE, !.old = TRUE]
OutdateQueue(q) == [i \in 1..Len(q) |-> Outdate(q[i])]


----------------------------------------------------------------------------
(* State, Mode and StateAtomic *)

\* enum State, #[repr(u8)]
Uninitialized == 0
Disabled == 1
Enabled == 2
Sleeping == 3
States == {Uninitialized, Disabled, Enabled, Sleeping}

\* enum Mode
Modes == {"Disabled", "Enabled", "Sleeping"}

\* impl From<Mode> for State
\* (The mutant that maps Sleeping to Enabled precedes it.)
StateFromModeSleepingAsEnabled(mode) ==
    CASE mode = "Disabled" -> Disabled
      [] mode = "Enabled" -> Enabled
      [] mode = "Sleeping" -> Enabled

\* (The mutant that maps Disabled to Uninitialized also precedes it.)
StateFromModeDisabledAsUninitialized(mode) ==
    CASE mode = "Disabled" -> Uninitialized
      [] mode = "Enabled" -> Enabled
      [] mode = "Sleeping" -> Sleeping

StateFromMode(mode) ==
    CASE mode = "Disabled" -> Disabled
      [] mode = "Enabled" -> Enabled
      [] mode = "Sleeping" -> Sleeping

\* impl TryFrom<u8> for State
\* (The mutants that reject the byte 3, and that decode it as Enabled, precede it.)
TryFromIntError == <<"Err", "TryFromIntError">>
StateTryFromRejectsThree(int) ==
    CASE int = 0 -> <<"Ok", Uninitialized>>
      [] int = 1 -> <<"Ok", Disabled>>
      [] int = 1 + 1 -> <<"Ok", Enabled>>
      [] OTHER -> TryFromIntError

StateTryFromThreeAsEnabled(int) ==
    CASE int = 0 -> <<"Ok", Uninitialized>>
      [] int = 1 -> <<"Ok", Disabled>>
      [] int = 1 + 1 -> <<"Ok", Enabled>>
      [] int = 1 + 1 + 1 -> <<"Ok", Enabled>>
      [] OTHER -> TryFromIntError

StateTryFrom(int) ==
    CASE int = 0 -> <<"Ok", Uninitialized>>
      [] int = 1 -> <<"Ok", Disabled>>
      [] int = 2 -> <<"Ok", Enabled>>
      [] int = 3 -> <<"Ok", Sleeping>>
      [] OTHER -> TryFromIntError

\* Result::unwrap; a panic is modelled as the value Panic, which is no State.
Panic == 0 - 1
Unwrap(result) == IF result[1] = "Ok" THEN result[2] ELSE Panic

\* The execution contexts that share a StateAtomic: a task and an interrupt handler.
Contexts == {"task", "isr"}

NoCallInProgress == [op |-> "none", mode |-> "none", prev |-> 0, retried |-> FALSE]
NoneDone ==
    [op |-> "none", arg |-> "none", ret |-> Panic, pre |-> 0, post |-> 0, wrote |-> FALSE,
     retried |-> FALSE]

\* StateAtomic::default(): the stored byte is 0, no call is in progress.
StDefault ==
    /\ state = Uninitialized
    /\ call = [c \in Contexts |-> NoCallInProgress]
    /\ done = NoneDone

\* StateAtomic::new(state), for any State
StInit ==
    /\ state \in States
    /\ call = [c \in Contexts |-> NoCallInProgress]
    /\ done = NoneDone

\* StateAtomic::get(): State::try_from(self.state.load(Acquire)).unwrap()
GetValue(byte) == Unwrap(StateTryFrom(byte))

get(c) ==
    /\ call[c].op = "none"
    /\ done' = [op |-> "get", arg |-> "none", ret |-> GetValue(state),
                pre |-> state, post |-> state, wrote |-> FALSE, retried |-> FALSE]
    /\ UNCHANGED <<state, call>>

\* StateAtomic::set(state): self.state.store(state as u8, Release)
set(c, s) ==
    /\ call[c].op = "none"
    /\ state' = s
    /\ done' = [op |-> "set", arg |-> s, ret |-> s,
                pre |-> state, post |-> s, wrote |-> TRUE, retried |-> FALSE]
    /\ UNCHANGED call

\* The closure given to fetch_update in set_mode: None for the byte of
\* Uninitialized, Some(new_state as u8) otherwise.
\* (The mutant without the gate precedes it.)
None == <<"None">>
Some(v) == <<"Some", v>>
UngatedUpdate(s, new_state) == Some(new_state)

GatedUpdate(s, new_state) == IF s = Uninitialized THEN None ELSE Some(new_state)

\* The compare-exchange of fetch_update: it stores only when the stored byte
\* is still the byte the closure was given.
\* (The mutant that stores without comparing precedes it.)
StoreWithoutCompare(current, expected) == TRUE

CompareExchange(current, expected) == current = expected

\* StateAtomic::set_mode(mode), first step: fetch_update loads the stored byte.
set_mode(c, mode) ==
    /\ call[c].op = "none"
    /\ call' = [call EXCEPT ![c] = [op |-> "set_mode", mode |-> mode, prev |-> state,
                                      retried |-> FALSE]]
    /\ UNCHANGED <<state, done>>

\* StateAtomic::set_mode(mode), the step that decides: the closure refuses the
\* loaded byte and set_mode returns State::Uninitialized, or the
\* compare-exchange stores the new byte and set_mode returns new_state, or the
\* compare-exchange fails on a changed byte and fetch_update tries again with
\* the byte it found (the call remembers that it tried again).
set_mode_update(c) ==
    /\ call[c].op = "set_mode"
    /\ LET new_state == StateFromMode(call[c].mode)
           next == GatedUpdate(call[c].prev, new_state)
       IN IF next = None
          THEN /\ done' = [op |-> "set_mode", arg |-> call[c].mode, ret |-> Uninitialized,
                           pre |-> call[c].prev, post |-> call[c].prev, wrote |-> FALSE,
                           retried |-> call[c].retried]
               /\ call' = [call EXCEPT ![c] = NoCallInProgress]
               /\ UNCHANGED state
          ELSE IF CompareExchange(state, call[c].prev)
          THEN /\ state' = next[2]
               /\ done' = [op |-> "set_mode", arg |-> call[c].mode, ret |-> new_state,
                           pre |-> state, post |-> next[2], wrote |-> TRUE,
                           retried |-> call[c].retried]
               /\ call' = [call EXCEPT ![c] = NoCallInProgress]
          ELSE /\ call' = [call EXCEPT ![c].prev = state, ![c].retried = TRUE]
               /\ UNCHANGED <<state, done>>

----------------------------------------------------------------------------
(* Sensor drivers: what the two drivers share in the model *)

\* Mutex::new(None): the protected Option and whether a guard is held
MutexNew == [value |-> "None", locked |-> FALSE]

\* No driver call has completed yet.  Fields: the call, its argument, its
\* result, the state byte the call acted on (pre), the enabled flag it found
\* (en), whether it took the lock of the hardware handle (lock), whether it
\* accessed the pin or the bus (hw), the outcome of the bus transaction (bus),
\* and whether a bus transaction had failed before the call (prior).
NoDriverCall ==
    [op |-> "none", arg |-> "none", ret |-> <<"None">>, pre |-> 0, en |-> FALSE,
     lock |-> FALSE, hw |-> FALSE, bus |-> "none", prior |-> FALSE]

\* A context can start a driver call when it is in none; a panic halts the system.
Idle(c) == dpc[c] = "idle" /\ call[c].op = "none"
Running == \A c \in Contexts : dpc[c] # "panicked"

----------------------------------------------------------------------------
(* GenericPushButton (riot-rs-builtin-sensors/src/push_buttons.rs) *)

\* GenericPushButton::new(): state Uninitialized (StDefault), button None
GenericPushButtonNew == button = MutexNew

\* InputPin::is_low(): the level read, or the error of the pin
PinResults == {<<"Ok", TRUE>>, <<"Ok", FALSE>>, <<"Err", "Pin">>}

\* The gate of init: self.state.get() == State::Uninitialized
\* (The mutant that brings the hardware up in every state precedes it.)
InitGateOpen(s) == TRUE

InitGate(s) == s = Uninitialized

\* GenericPushButton::init, first step: self.state.get() == State::Uninitialized
GenericPushButton_init(c) ==
    /\ Running
    /\ Idle(c)
    /\ IF InitGate(GetValue(state))
       THEN /\ dpc' = [dpc EXCEPT ![c] = "init_lock"]
            /\ UNCHANGED ddone
       ELSE /\ ddone' = [NoDriverCall EXCEPT !.op = "init", !.ret = <<"Unit">>, !.pre = state]
            /\ UNCHANGED dpc
    /\ UNCHANGED <<stVars, button>>

\* GenericPushButton::init, second step: self.button.try_lock().unwrap() and
\* *button = Some(gpio); the unwrap panics when a guard is held.
GenericPushButton_init_lock(c) ==
    /\ Running
    /\ dpc[c] = "init_lock"
    /\ IF button.locked
       THEN /\ dpc' = [dpc EXCEPT ![c] = "panicked"]
            /\ ddone' = [NoDriverCall EXCEPT !.op = "init", !.ret = <<"Panic">>]
            /\ UNCHANGED button
       ELSE /\ button' = [value |-> "Some", locked |-> TRUE]
            /\ dpc' = [dpc EXCEPT ![c] = "init_set"]
            /\ UNCHANGED ddone
    /\ UNCHANGED stVars

\* GenericPushButton::init, last step: self.state.set(State::Enabled), then the
\* guard is dropped.
GenericPushButton_init_set(c) ==
    /\ Running
    /\ dpc[c] = "init_set"
    /\ set(c, Enabled)
    /\ button' = [button EXCEPT !.locked = FALSE]
    /\ dpc' = [dpc EXCEPT ![c] = "idle"]
    /\ ddone' = [NoDriverCall EXCEPT !.op = "init", !.ret = <<"Unit">>, !.pre = state,
                                     !.lock = TRUE]

\* The gate of measure: self.state.get() != State::Enabled
\* (The mutant that lets every measurement through precedes it.)
MeasureGateOpen(s) == FALSE

MeasureGate(s) == s # Enabled

\* i32::from(is_pressed)
I32FromBool(b) == IF b THEN 1 ELSE 0

\* GenericPushButton::measure, first step: the gate; a driver that is not
\* Enabled returns Err(ReadingError::NonEnabled) at once.
GenericPushButton_measure(c) ==
    /\ Running
    /\ Idle(c)
    /\ IF MeasureGate(GetValue(state))
       THEN /\ ddone' = [NoDriverCall EXCEPT !.op = "measure", !.ret = <<"Err", "NonEnabled">>,
                                             !.pre = state]
            /\ UNCHANGED dpc
       ELSE /\ dpc' = [dpc EXCEPT ![c] = "measure_lock"]
            /\ UNCHANGED ddone
    /\ UNCHANGED <<stVars, button>>

\* GenericPushButton::measure: self.button.lock().await resolves once no guard is held.
GenericPushButton_measure_lock(c) ==
    /\ Running
    /\ dpc[c] = "measure_lock"
    /\ ~button.locked
    /\ button' = [button EXCEPT !.locked = TRUE]
    /\ UNCHANGED <<stVars, ddone>>
    /\ dpc' = [dpc EXCEPT ![c] = "measure_read"]

\* GenericPushButton::measure, last step: .as_mut().unwrap().is_low().unwrap(),
\* the guard is dropped and the reading is returned as V1([is_pressed as i32]).
GenericPushButton_measure_read(c) ==
    /\ Running
    /\ dpc[c] = "measure_read"
    /\ \E pin \in PinResults :
          IF button.value = "None" \/ pin[1] = "Err"
          THEN /\ dpc' = [dpc EXCEPT ![c] = "panicked"]
               /\ ddone' = [NoDriverCall EXCEPT !.op = "measure", !.ret = <<"Panic">>,
                                                !.pre = Enabled, !.lock = TRUE,
                                                !.hw = (button.value = "Some")]
               /\ UNCHANGED button
          ELSE /\ dpc' = [dpc EXCEPT ![c] = "idle"]
               /\ ddone' = [NoDriverCall EXCEPT !.op = "measure",
                                                !.ret = <<"Ok", <<I32FromBool(pin[2])>>>>,
                                                !.pre = Enabled, !.lock = TRUE, !.hw = TRUE]
               /\ button' = [button EXCEPT !.locked = FALSE]
    /\ UNCHANGED stVars

\* The result of GenericPushButton::set_mode for the State that
\* StateAtomic::set_mode returned.
\* (The mutant that never reports the error precedes it.)
SetModeResultAlwaysOk(new_state) == <<"Ok", new_state>>

SetModeResult(new_state) ==
    IF new_state = Uninitialized THEN <<"Err", "Uninitialized">> ELSE <<"Ok", new_state>>

\* GenericPushButton::set_mode(mode): self.state.set_mode(mode), its load
GenericPushButton_set_mode(c, mode) ==
    /\ Running
    /\ Idle(c)
    /\ set_mode(c, mode)
    /\ UNCHANGED <<button, dpc, ddone>>

\* GenericPushButton::set_mode(mode): the deciding step of self.state.set_mode
\* and, when it returned, the Result made of the State it returned.
GenericPushButton_set_mode_return(c) ==
    /\ Running
    /\ set_mode_update(c)
    /\ ddone' = IF call'[c].op = "none"
                THEN [NoDriverCall EXCEPT !.op = "set_mode", !.arg = call[c].mode,
                                          !.ret = SetModeResult(done'.ret), !.pre = done'.pre]
                ELSE ddone
    /\ UNCHANGED <<button, dpc>>

----------------------------------------------------------------------------
(* Lis3dhI2c (riot-rs-builtin-sensors/src/lis3dh.rs) *)

\* Lis3dhI2c::new(): both flags false, accel None
Lis3dhI2cNew ==
    /\ initialized = FALSE
    /\ enabled = FALSE
    /\ accel = MutexNew

\* What accel_norm() can resolve to: a sample (x, y, z, here in thousandths of
\* g) or an error of the bus.
AccelData == {<<0, 0, 1000>>, <<0 - 15, 15, 981>>}
BusErrors == {"Nack", "Overrun"}
BusResults == {<<"Ok", d>> : d \in AccelData} \cup {<<"Err", e>> : e \in BusErrors}

\* (data.x * 100.) as i32: the value in hundredths of g, truncated towards zero
ScaleAxis(v) == IF v >= 0 THEN v \div 10 ELSE 0 - ((0 - v) \div 10)
V3(d) == <<ScaleAxis(d[1]), ScaleAxis(d[2]), ScaleAxis(d[3])>>

\* .map_err(|_| ReadingError::SensorAccess)
\* (The mutant that answers a bus error with a zero reading precedes it.)
BusErrorAsZeroReading(e) == <<"Ok", <<0, 0, 0>>>>

BusErrorMap(e) == <<"Err", "SensorAccess">>

\* (The mutant of the handle store that leaves the handle empty.)
StoreNoHandle(mutex) == [mutex EXCEPT !.locked = TRUE]

\* *accel = Some(driver), through the guard that try_lock returned
StoreHandle(mutex) == [value |-> "Some", locked |-> TRUE]

\* The gate of set_enabled: self.initialized.load(Acquire)
\* (The mutant that stores the flag in every state precedes it.)
SetEnabledUngated(init, e, old) == e

SetEnabledGate(init, e, old) == IF init THEN e ELSE old

\* Lis3dhI2c::init, first step: !self.initialized.load(Acquire)
Lis3dhI2c_init(c) ==
    /\ Running
    /\ Idle(c)
    /\ IF ~initialized
       THEN /\ dpc' = [dpc EXCEPT ![c] = "init_driver"]
            /\ UNCHANGED ddone
       ELSE /\ ddone' = [NoDriverCall EXCEPT !.op = "init", !.ret = <<"Unit">>, !.en = enabled]
            /\ UNCHANGED dpc
    /\ UNCHANGED <<initialized, enabled, accel, faulted>>

\* Lis3dhI2c::init: block_on(new_i2c_with_config(..)).unwrap(), then
\* self.accel.try_lock().unwrap() and *accel = Some(driver); either unwrap panics.
Lis3dhI2c_init_driver(c) ==
    /\ Running
    /\ dpc[c] = "init_driver"
    /\ \E r \in {"Ok", "Err"} :
          IF r = "Err" \/ accel.locked
          THEN /\ dpc' = [dpc EXCEPT ![c] = "panicked"]
               /\ ddone' = [NoDriverCall EXCEPT !.op = "init", !.ret = <<"Panic">>,
                                                !.hw = TRUE, !.bus = r]
               /\ faulted' = (faulted \/ r = "Err")
               /\ UNCHANGED accel
          ELSE /\ accel' = StoreHandle(accel)
               /\ dpc' = [dpc EXCEPT ![c] = "init_initialized"]
               /\ UNCHANGED <<ddone, faulted>>
    /\ UNCHANGED <<initialized, enabled>>

\* Lis3dhI2c::init: self.initialized.store(true, Release)
Lis3dhI2c_init_initialized(c) ==
    /\ Running
    /\ dpc[c] = "init_initialized"
    /\ initialized' = TRUE
    /\ dpc' = [dpc EXCEPT ![c] = "init_enabled"]
    /\ UNCHANGED <<enabled, accel, ddone, faulted>>

\* Lis3dhI2c::init, last step: self.enabled.store(true, Release), then the
\* guard is dropped.
Lis3dhI2c_init_enabled(c) ==
    /\ Running
    /\ dpc[c] = "init_enabled"
    /\ enabled' = TRUE
    /\ accel' = [accel EXCEPT !.locked = FALSE]
    /\ dpc' = [dpc EXCEPT ![c] = "idle"]
    /\ ddone' = [NoDriverCall EXCEPT !.op = "init", !.ret = <<"Unit">>, !.en = enabled,
                                     !.lock = TRUE, !.hw = TRUE, !.bus = "Ok"]
    /\ UNCHANGED <<initialized, faulted>>

\* Lis3dhI2c::read, first step: a driver whose enabled flag is false returns
\* Err(ReadingError::Disabled) at once.
Lis3dhI2c_read(c) ==
    /\ Running
    /\ Idle(c)
    /\ IF ~enabled
       THEN /\ ddone' = [NoDriverCall EXCEPT !.op = "read", !.ret = <<"Err", "Disabled">>]
            /\ UNCHANGED dpc
       ELSE /\ dpc' = [dpc EXCEPT ![c] = "read_lock"]
            /\ UNCHANGED ddone
    /\ UNCHANGED <<initialized, enabled, accel, faulted>>

\* Lis3dhI2c::read: self.accel.lock().await resolves once no guard is held.
Lis3dhI2c_read_lock(c) ==
    /\ Running
    /\ dpc[c] = "read_lock"
    /\ ~accel.locked
    /\ accel' = [accel EXCEPT !.locked = TRUE]
    /\ dpc' = [dpc EXCEPT ![c] = "read_bus"]
    /\ UNCHANGED <<initialized, enabled, ddone, faulted>>

\* Lis3dhI2c::read, last step: .as_mut().unwrap().accel_norm().await, the
\* error mapped and returned by `?`, or the sample scaled into V3([x, y, z]);
\* the guard is dropped either way.
Lis3dhI2c_read_bus(c) ==
    /\ Running
    /\ dpc[c] = "read_bus"
    /\ IF accel.value = "None"
       THEN /\ dpc' = [dpc EXCEPT ![c] = "panicked"]
            /\ ddone' = [NoDriverCall EXCEPT !.op = "read", !.ret = <<"Panic">>, !.en = TRUE,
                                             !.lock = TRUE]
            /\ UNCHANGED <<accel, faulted>>
       ELSE \E r \in BusResults :
               /\ dpc' = [dpc EXCEPT ![c] = "idle"]
               /\ accel' = [accel EXCEPT !.locked = FALSE]
               /\ faulted' = (faulted \/ r[1] = "Err")
               /\ ddone' = [NoDriverCall EXCEPT
                              !.op = "read",
                              !.ret = IF r[1] = "Err" THEN BusErrorMap(r[2])
                                      ELSE <<"Ok", V3(r[2])>>,
                              !.en = TRUE, !.lock = TRUE, !.hw = TRUE, !.bus = r[1],
                              !.prior = faulted]
    /\ UNCHANGED <<initialized, enabled>>

\* Lis3dhI2c::set_enabled(enabled): stores the flag when initialized
Lis3dhI2c_set_enabled(c, e) ==
    /\ Running
    /\ Idle(c)
    /\ enabled' = SetEnabledGate(initialized, e, enabled)
    /\ ddone' = [NoDriverCall EXCEPT !.op = "set_enabled", !.arg = e, !.ret = <<"Unit">>,
                                     !.en = enabled]
    /\ UNCHANGED <<initialized, accel, dpc, faulted>>

----------------------------------------------------------------------------
(* InternalTemp (riot-rs-embassy/src/arch/nrf/internal_temp.rs) *)

\* channel: Channel<CriticalSectionRawMutex, Notification, 1>
NotificationCap == 1

\* InternalTemp::new(): both flags false, temp None, channel empty, the
\* threshold off; temp_watcher is not spawned.
InternalTempNew ==
    /\ temp = MutexNew
    /\ channel = <<>>
    /\ lower_threshold_enabled = FALSE
    /\ wpc = "none"
    /\ wdone = "none"

\* Channel::try_send: queues the message when there is room, returns
\* Err(TrySendError::Full) otherwise; it never waits.
\* (The mutant that queues the message regardless precedes it.)
TrySendQueuesAnyway(ch, msg) == [ch |-> Append(ch, msg), ret |-> <<"Ok">>]

TrySend(ch, msg) ==
    IF Len(ch) < NotificationCap
    THEN [ch |-> Append(ch, msg), ret |-> <<"Ok">>]
    ELSE [ch |-> ch, ret |-> <<"Err", "Full">>]

\* InternalTemp::init, first step: !self.initialized.load(Acquire)
InternalTemp_init(c) ==
    /\ Running
    /\ Idle(c)
    /\ IF ~initialized
       THEN /\ dpc' = [dpc EXCEPT ![c] = "init_lock"]
            /\ UNCHANGED ddone
       ELSE /\ ddone' = [NoDriverCall EXCEPT !.op = "init", !.ret = <<"Unit">>, !.en = enabled]
            /\ UNCHANGED dpc
    /\ UNCHANGED <<initialized, enabled, temp, channel, lower_threshold_enabled, wpc, wdone>>

\* InternalTemp::init: self.temp.try_lock().unwrap() and *temp = Some(Temp::new(..));
\* the unwrap panics when a guard is held.
InternalTemp_init_lock(c) ==
    /\ Running
    /\ dpc[c] = "init_lock"
    /\ IF temp.locked
       THEN /\ dpc' = [dpc EXCEPT ![c] = "panicked"]
            /\ ddone' = [NoDriverCall EXCEPT !.op = "init", !.ret = <<"Panic">>]
            /\ UNCHANGED temp
       ELSE /\ temp' = [value |-> "Some", locked |-> TRUE]
            /\ dpc' = [dpc EXCEPT ![c] = "init_spawn"]
            /\ UNCHANGED ddone
    /\ UNCHANGED <<initialized, enabled, channel, lower_threshold_enabled, wpc, wdone>>

\* InternalTemp::init: spawner.spawn(temp_watcher(&self)).unwrap(); the task
\* has one instance, so the unwrap panics when it is already spawned.
InternalTemp_init_spawn(c) ==
    /\ Running
    /\ dpc[c] = "init_spawn"
    /\ IF wpc # "none"
       THEN /\ dpc' = [dpc EXCEPT ![c] = "panicked"]
            /\ ddone' = [NoDriverCall EXCEPT !.op = "init", !.ret = <<"Panic">>, !.lock = TRUE]
            /\ UNCHANGED wpc
       ELSE /\ wpc' = "loop"
            /\ dpc' = [dpc EXCEPT ![c] = "init_initialized"]
            /\ UNCHANGED ddone
    /\ UNCHANGED <<initialized, enabled, temp, channel, lower_threshold_enabled, wdone>>

\* InternalTemp::init: self.initialized.store(true, Release)
InternalTemp_init_initialized(c) ==
    /\ Running
    /\ dpc[c] = "init_initialized"
    /\ initialized' = TRUE
    /\ dpc' = [dpc EXCEPT ![c] = "init_enabled"]
    /\ UNCHANGED <<enabled, temp, channel, lower_threshold_enabled, wpc, wdone, ddone>>

\* InternalTemp::init, last step: self.enabled.store(true, Release), then the
\* guard is dropped.
InternalTemp_init_enabled(c) ==
    /\ Running
    /\ dpc[c] = "init_enabled"
    /\ enabled' = TRUE
    /\ temp' = [temp EXCEPT !.locked = FALSE]
    /\ dpc' = [dpc EXCEPT ![c] = "idle"]
    /\ ddone' = [NoDriverCall EXCEPT !.op = "init", !.ret = <<"Unit">>, !.en = enabled,
                                     !.lock = TRUE, !.hw = TRUE]
    /\ UNCHANGED <<initialized, channel, lower_threshold_enabled, wpc, wdone>>

\* InternalTemp::read_main, first step: a driver whose enabled flag is false
\* returns Err(ReadingError::Disabled) at once.
InternalTemp_read_main(c) ==
    /\ Running
    /\ Idle(c)
    /\ IF ~enabled
       THEN /\ ddone' = [NoDriverCall EXCEPT !.op = "read", !.ret = <<"Err", "Disabled">>]
            /\ UNCHANGED dpc
       ELSE /\ dpc' = [dpc EXCEPT ![c] = "read_lock"]
            /\ UNCHANGED ddone
    /\ UNCHANGED <<initialized, enabled, temp, channel, lower_threshold_enabled, wpc, wdone>>

\* InternalTemp::read_main: self.temp.lock().await resolves once no guard is held.
InternalTemp_read_main_lock(c) ==
    /\ Running
    /\ dpc[c] = "read_lock"
    /\ ~temp.locked
    /\ temp' = [temp EXCEPT !.locked = TRUE]
    /\ dpc' = [dpc EXCEPT ![c] = "read_temp"]
    /\ UNCHANGED <<initialized, enabled, channel, lower_threshold_enabled, wpc, wdone, ddone>>

\* The temperatures a read can return, in hundredths of a degree.
Temperatures == {2150, 2475}

\* InternalTemp::read_main, last step: .as_mut().unwrap().read().await; the
\* guard is dropped and the value returned.
InternalTemp_read_main_read(c) ==
    /\ Running
    /\ dpc[c] = "read_temp"
    /\ IF temp.value = "None"
       THEN /\ dpc' = [dpc EXCEPT ![c] = "panicked"]
            /\ ddone' = [NoDriverCall EXCEPT !.op = "read", !.ret = <<"Panic">>, !.en = TRUE,
                                             !.lock = TRUE]
            /\ UNCHANGED temp
       ELSE \E v \in Temperatures :
               /\ dpc' = [dpc EXCEPT ![c] = "idle"]
               /\ temp' = [temp EXCEPT !.locked = FALSE]
               /\ ddone' = [NoDriverCall EXCEPT !.op = "read", !.ret = <<"Ok", v>>,
                                                !.en = TRUE, !.lock = TRUE, !.hw = TRUE]
    /\ UNCHANGED <<initialized, enabled, channel, lower_threshold_enabled, wpc, wdone>>

\* InternalTemp::set_enabled(enabled): stores the flag when initialized
InternalTemp_set_enabled(c, e) ==
    /\ Running
    /\ Idle(c)
    /\ enabled' = SetEnabledGate(initialized, e, enabled)
    /\ ddone' = [NoDriverCall EXCEPT !.op = "set_enabled", !.arg = e, !.ret = <<"Unit">>,
                                     !.en = enabled]
    /\ UNCHANGED <<initialized, temp, channel, lower_threshold_enabled, wpc, wdone, dpc>>

\* InternalTemp::set_threshold_enabled(ThresholdKind::Lower, enabled)
InternalTemp_set_threshold_enabled(c, e) ==
    /\ Running
    /\ Idle(c)
    /\ lower_threshold_enabled' = e
    /\ UNCHANGED <<initialized, enabled, temp, channel, wpc, wdone, dpc, ddone>>

\* A subscriber takes the pending notification from the channel.
InternalTemp_receive(c) ==
    /\ Running
    /\ Idle(c)
    /\ channel # <<>>
    /\ channel' = Tail(channel)
    /\ UNCHANGED <<initialized, enabled, temp, lower_threshold_enabled, wpc, wdone, dpc, ddone>>

\* temp_watcher, the head of a round: lower_threshold_enabled.load(Acquire),
\* then the gate of read_temperature() (read_main): a threshold that is off or
\* a sensor that is not enabled sends the task to its timer.
temp_watcher ==
    /\ Running
    /\ wpc = "loop"
    /\ IF ~lower_threshold_enabled
       THEN wpc' = "sleep" /\ wdone' = "off"
       ELSE IF ~enabled
       THEN wpc' = "sleep" /\ wdone' = "disabled"
       ELSE wpc' = "read_lock" /\ wdone' = wdone
    /\ UNCHANGED <<initialized, enabled, temp, channel, lower_threshold_enabled, dpc, ddone>>

\* temp_watcher inside read_main: self.temp.lock().await
temp_watcher_lock ==
    /\ Running
    /\ wpc = "read_lock"
    /\ ~temp.locked
    /\ temp' = [temp EXCEPT !.locked = TRUE]
    /\ wpc' = "read_temp"
    /\ UNCHANGED <<initialized, enabled, channel, lower_threshold_enabled, wdone, dpc, ddone>>

\* temp_watcher: the value is read and the guard dropped; a value above the
\* threshold is announced with channel.try_send(..), whose result is discarded
\* (let _ =); the task goes to its timer either way.
temp_watcher_notify ==
    /\ Running
    /\ wpc = "read_temp"
    /\ IF temp.value = "None"
       THEN /\ dpc' = [c \in Contexts |-> "panicked"]
            /\ UNCHANGED <<temp, channel, wpc, wdone>>
       ELSE /\ temp' = [temp EXCEPT !.locked = FALSE]
            /\ wpc' = "sleep"
            /\ UNCHANGED dpc
            /\ \E above \in BOOLEAN :
                  IF above
                  THEN LET sent == TrySend(channel, "Threshold(Lower)")
                       IN /\ channel' = sent.ch
                          /\ wdone' = IF sent.ret[1] = "Ok" THEN "sent" ELSE "dropped"
                  ELSE channel' = channel /\ wdone' = "below"
    /\ UNCHANGED <<initialized, enabled, lower_threshold_enabled, ddone>>

\* temp_watcher: Timer::after(Duration::from_millis(100)).await, then the next round
temp_watcher_timer ==
    /\ Running
    /\ wpc = "sleep"
    /\ wpc' = "loop"
    /\ UNCHANGED <<initialized, enabled, temp, channel, lower_threshold_enabled, wdone, dpc, ddone>>

\* The drivers as constructed, no call in progress
DrvConstructed ==
    /\ GenericPushButtonNew
    /\ Lis3dhI2cNew
    /\ InternalTempNew
    /\ dpc = [c \in Contexts |-> "idle"]
    /\ ddone = NoDriverCall
    /\ faulted = FALSE

DrvNew == driver = "none" /\ DrvConstructed

\* No RingBufferIndex is part of the system.
RbNone ==
    /\ rb = [reads |-> 0, writes |-> 0, mask |-> 0]
    /\ size = 0
    /\ overflow_checks = FALSE
    /\ rbdone = [op |-> "none", ret |-> None]
    /\ cycles = 0
    /\ fresh = TRUE
    /\ rbprev = rb
    /\ fifo = <<>>

\* No ReadingWaiter has been constructed.
NoWaiter == [variant |-> "None", err |-> "none"]
RwNone ==
    /\ waiter = NoWaiter
    /\ built = NoWaiter
    /\ yielded = <<>>
    /\ signaled = {}
    /\ delivered = 0
    /\ suspended = FALSE
    /\ resumed = FALSE

----------------------------------------------------------------------------
(* SensorSignaling *)

\* SensorSignaling::new()
SigInit ==
    /\ trigger = SignalNew
    /\ reading_channel = ChannelNew
    /\ pc = [t \in Tasks |-> "idle"]
    /\ parked = [t \in Tasks |-> FALSE]
    /\ sending = NoMsg
    /\ got = [t \in Tasks |-> NoMsg]

HistInit ==
    /\ hist = <<>>
    /\ nTrig = 0
    /\ nWake = 0
    /\ nCoalesced = 0
    /\ batch = 0
    /\ lastBatch = 0
    /\ wakesSinceTrig = 0
    /\ measStale = FALSE
    /\ trk = "none"
    /\ trkWait = "none"
    /\ trkGot = FALSE
    /\ trkClean = TRUE
    /\ nMarked = 0
    /\ markDeliveries = 0

\* "Remove the possibly lingering reading": self.reading_channel.clear()
\* (The mutant that leaves the reading in the slot precedes it.)
KeepLingeringReading(ch) == [ch |-> ch, wake |-> {}]
\* (So does the mutant that empties the slot without waking a suspended sender.)
ClearWithoutWake(ch) == [ch |-> [ch EXCEPT !.queue = <<>>], wake |-> {}]

RemoveLingeringReading(ch) == ChannelClear(ch)

\* self.trigger.signal(())
\* (The mutant that forgets to signal the wake precedes it.)
TriggerNotSignaled(sg) == [sg |-> sg, wake |-> {}]

TriggerSignal(sg) == SignalSignal(sg)

\* trigger_measurement(), called by application task t.  With track the call
\* becomes the tracked trigger of the history.
trigger_measurement(t, track) ==
    /\ pc[t] = "idle"
    /\ nTrig < MaxTriggers
    /\ track => trk = "none"
    /\ LET c == RemoveLingeringReading(
                    [reading_channel EXCEPT !.queue = OutdateQueue(@)])
           s == TriggerSignal(trigger)
       IN /\ reading_channel' = c.ch
          /\ trigger' = s.sg
          /\ parked' = WakeAll(parked, c.wake \cup s.wake)
    /\ sending' = IF sending = NoMsg THEN sending ELSE [sending EXCEPT !.stale = TRUE]
    /\ measStale' = (measStale \/ pc[Driver] = "measure")
    /\ nTrig' = nTrig + 1
    /\ nCoalesced' = nCoalesced + (IF trigger.state = "Signaled" THEN 1 ELSE 0)
    /\ batch' = batch + 1
    /\ wakesSinceTrig' = 0
    /\ IF track
       THEN trk' = "armed" /\ trkClean' = TRUE
       ELSE /\ trk' = trk
            /\ trkClean' = IF trk # "none" /\ trkWait # "done" THEN FALSE ELSE trkClean
    /\ UNCHANGED <<pc, got, nWake, lastBatch, trkWait, trkGot, nMarked, markDeliveries>>

\* wait_for_reading(), called by application task t: builds the
\* ReadingWaiter::Waiter around reading_channel.receive(); nothing is polled yet.
wait_for_reading(t) ==
    /\ pc[t] = "idle"
    /\ pc' = [pc EXCEPT ![t] = "wait_for_reading"]
    /\ got' = [got EXCEPT ![t] = NoMsg]
    /\ trkWait' = IF trk # "none" /\ trkWait = "none" THEN "called" ELSE trkWait
    /\ UNCHANGED <<trigger, reading_channel, parked, sending, nTrig, nWake, nCoalesced, batch,
                   lastBatch, wakesSinceTrig, measStale, trk, trkGot, trkClean,
                   nMarked, markDeliveries>>

\* ReadingWaiter::poll, variant Waiter: waiter.poll(cx)
\* (The mutant that reads the slot without emptying it precedes it.)
WaiterPollKeepsMessage(ch, t) ==
    IF ch.queue # <<>>
    THEN [ch |-> ch, ready |-> TRUE, msg |-> Head(ch.queue), wake |-> {}]
    ELSE ChannelPollReceive(ch, t)

\* (So does the mutant that resolves with a default value on an empty slot.)
WaiterPollDefault(ch, t) ==
    IF ch.queue = <<>>
    THEN [ch |-> ch, ready |-> TRUE, wake |-> {},
          msg |-> Msg(<<"Err", "NonEnabled">>, FALSE, FALSE, FALSE)]
    ELSE ChannelPollReceive(ch, t)

WaiterPoll(ch, t) == ChannelPollReceive(ch, t)

\* The executor polls the ReadingWaiter of application task t.
poll_reading(t) ==
    /\ pc[t] = "wait_for_reading"
    /\ ~parked[t]
    /\ LET r == WaiterPoll(reading_channel, t)
       IN /\ reading_channel' = r.ch
          /\ IF r.ready
             THEN /\ pc' = [pc EXCEPT ![t] = "idle"]
                  /\ got' = [got EXCEPT ![t] = r.msg]
                  /\ parked' = WakeAll(parked, r.wake)
                  /\ markDeliveries' = markDeliveries + (IF r.msg.mark THEN 1 ELSE 0)
                  /\ trkWait' = IF trkWait = "called" THEN "done" ELSE trkWait
                  /\ trkGot' = IF trkWait = "called" THEN r.msg.tfirst ELSE trkGot
             ELSE /\ parked' = Park(WakeAll(parked, r.wake), t)
                  /\ UNCHANGED <<pc, got, markDeliveries, trkWait, trkGot>>
    /\ UNCHANGED <<trigger, sending, nTrig, nWake, nCoalesced, batch, lastBatch, wakesSinceTrig,
                   measStale, trk, trkClean, nMarked>>

\* wait_for_trigger(), called by the driver task: self.trigger.wait()
wait_for_trigger ==
    /\ pc[Driver] = "idle"
    /\ pc' = [pc EXCEPT ![Driver] = "wait_for_trigger"]
    /\ UNCHANGED <<trigger, reading_channel, parked, sending, got, ghostVars>>

\* self.trigger.wait().await, polled for task t
\* (The mutant that sees the wake without consuming it precedes it.)
TriggerWaitKeepsSignal(sg, t) ==
    IF sg.state = "Signaled"
    THEN [sg |-> sg, ready |-> TRUE, wake |-> {}]
    ELSE SignalPollWait(sg, t)

TriggerWait(sg, t) == SignalPollWait(sg, t)

\* The executor polls the driver's wait_for_trigger future; on completion the
\* driver goes on at next.
poll_trigger(next) ==
    /\ pc[Driver] = "wait_for_trigger"
    /\ ~parked[Driver]
    /\ LET r == TriggerWait(trigger, Driver)
       IN /\ trigger' = r.sg
          /\ IF r.ready
             THEN /\ pc' = [pc EXCEPT ![Driver] = next]
                  /\ parked' = WakeAll(parked, r.wake)
                  /\ nWake' = nWake + 1
                  /\ lastBatch' = batch
                  /\ batch' = 0
                  /\ wakesSinceTrig' = wakesSinceTrig + 1
                  /\ measStale' = FALSE
             ELSE /\ parked' = Park(WakeAll(parked, r.wake), Driver)
                  /\ UNCHANGED <<pc, nWake, lastBatch, batch, wakesSinceTrig, measStale>>
    /\ UNCHANGED <<reading_channel, sending, got, nTrig, nCoalesced, trk, trkWait, trkGot, trkClean,
                   nMarked, markDeliveries>>

\* The driver calls a send on reading_channel with result r; from is where the
\* driver task stands ("measure" when r ends a measurement of the driver loop).
StartSend(from, r, mk) ==
    /\ pc[Driver] = from
    /\ mk => nMarked = 0
    /\ pc' = [pc EXCEPT ![Driver] = "signal_reading"]
    /\ sending' = Msg(r, from = "measure" /\ measStale, FALSE, mk)
    /\ nMarked' = nMarked + (IF mk THEN 1 ELSE 0)
    /\ UNCHANGED <<trigger, reading_channel, parked, got, nTrig, nWake, nCoalesced, batch,
                   lastBatch, wakesSinceTrig, measStale, trk, trkWait, trkGot, trkClean,
                   markDeliveries>>

\* signal_reading(reading): self.reading_channel.send(Ok(reading))
signal_reading(from, reading, mk) == StartSend(from, <<"Ok", reading>>, mk)

\* signal_reading_err(reading_err): self.reading_channel.send(Err(reading_err))
signal_reading_err(from, reading_err, mk) == StartSend(from, <<"Err", reading_err>>, mk)

\* The executor polls the driver's pending send.
poll_send ==
    /\ pc[Driver] = "signal_reading"
    /\ ~parked[Driver]
    /\ LET m == [sending EXCEPT !.tfirst = (trk = "armed")]
           r == ChannelPollSend(reading_channel, m, Driver)
       IN /\ reading_channel' = r.ch
          /\ IF r.ready
             THEN /\ pc' = [pc EXCEPT ![Driver] = "idle"]
                  /\ sending' = NoMsg
                  /\ parked' = WakeAll(parked, r.wake)
                  /\ trk' = IF trk = "armed" THEN "pushed" ELSE trk
             ELSE /\ parked' = Park(WakeAll(parked, r.wake), Driver)
                  /\ UNCHANGED <<pc, sending, trk>>
    /\ UNCHANGED <<trigger, got, nTrig, nWake, nCoalesced, batch, lastBatch, wakesSinceTrig,
                   measStale, trkWait, trkGot, trkClean, nMarked, markDeliveries>>

----------------------------------------------------------------------------
(* Specifications of one SensorSignaling instance *)

Init == SigInit /\ HistInit /\ StDefault /\ DrvNew /\ RbNone /\ RwNone

\* One application task and one driver task, each calling the methods of the
\* instance in any order.
Next ==
    \/ trigger_measurement(App, FALSE) /\ LogStep
    \/ wait_for_reading(App) /\ LogStep
    \/ poll_reading(App) /\ LogStep
    \/ wait_for_trigger /\ LogStep
    \/ poll_trigger("idle") /\ LogStep
    \/ (\E v \in Readings : signal_reading("idle", v, FALSE)) /\ LogStep
    \/ (\E e \in ReadingErrors : signal_reading_err("idle", e, FALSE)) /\ LogStep
    \/ poll_send /\ LogStep

Spec == Init /\ [][Next]_vars

\* One application task, and a driver task that loops: wait_for_trigger,
\* measure, signal_reading or signal_reading_err.
LoopNext ==
    \/ (\E track \in BOOLEAN : trigger_measurement(App, track)) /\ NoLog
    \/ wait_for_reading(App) /\ NoLog
    \/ poll_reading(App) /\ NoLog
    \/ wait_for_trigger /\ NoLog
    \/ poll_trigger("measure") /\ NoLog
    \/ (\E v \in Readings : signal_reading("measure", v, FALSE)) /\ NoLog
    \/ (\E e \in ReadingErrors : signal_reading_err("measure", e, FALSE)) /\ NoLog
    \/ poll_send /\ NoLog

SpecLoop == Init /\ [][LoopNext]_vars

\* Two application tasks waiting on the same instance.
RaceNext ==
    \/ (\E t \in {App, App2} : trigger_measurement(t, FALSE)) /\ NoLog
    \/ (\E t \in {App, App2} : wait_for_reading(t)) /\ NoLog
    \/ (\E t \in {App, App2} : poll_reading(t)) /\ NoLog
    \/ wait_for_trigger /\ NoLog
    \/ poll_trigger("idle") /\ NoLog
    \/ (\E v \in Readings, mk \in BOOLEAN : signal_reading("idle", v, mk)) /\ NoLog
    \/ (\E e \in ReadingErrors, mk \in BOOLEAN : signal_reading_err("idle", e, mk)) /\ NoLog
    \/ poll_send /\ NoLog

SpecRace == Init /\ [][RaceNext]_vars

\* The same, with both tasks scheduled fairly: a task that can run is
\* eventually polled by the executor.
AppStep ==
    \/ (\E track \in BOOLEAN : trigger_measurement(App, track)) /\ NoLog
    \/ wait_for_reading(App) /\ NoLog
    \/ poll_reading(App) /\ NoLog

DriverStep ==
    \/ wait_for_trigger /\ NoLog
    \/ poll_trigger("measure") /\ NoLog
    \/ (\E v \in Readings : signal_reading("measure", v, FALSE)) /\ NoLog
    \/ (\E e \in ReadingErrors : signal_reading_err("measure", e, FALSE)) /\ NoLog
    \/ poll_send /\ NoLog

SpecLoopFair == SpecLoop /\ WF_vars(AppStep) /\ WF_vars(DriverStep)

----------------------------------------------------------------------------
(* Specification of one StateAtomic shared by a task and an interrupt handler *)

StateInit == SigInit /\ HistInit /\ StInit /\ DrvNew /\ RbNone /\ RwNone

StateNext ==
    \/ (\E c \in Contexts : get(c)) /\ UNCHANGED <<sigVars, hist, ghostVars, drvVars, rbVars, rwVars>>
    \/ (\E c \in Contexts, s \in States : set(c, s)) /\ UNCHANGED <<sigVars, hist, ghostVars, drvVars, rbVars, rwVars>>
    \/ (\E c \in Contexts, m \in Modes : set_mode(c, m)) /\ UNCHANGED <<sigVars, hist, ghostVars, drvVars, rbVars, rwVars>>
    \/ (\E c \in Contexts : set_mode_update(c)) /\ UNCHANGED <<sigVars, hist, ghostVars, drvVars, rbVars, rwVars>>

SpecState == StateInit /\ [][StateNext]_vars

----------------------------------------------------------------------------
(* Specification of one GenericPushButton called from two contexts *)

ButtonFrame ==
    UNCHANGED <<sigVars, hist, ghostVars, initialized, enabled, accel, faulted, itVars,
               rbVars, rwVars>>

ButtonNext ==
    \/ (\E c \in Contexts : GenericPushButton_init(c)) /\ ButtonFrame
    \/ (\E c \in Contexts : GenericPushButton_init_lock(c)) /\ ButtonFrame
    \/ (\E c \in Contexts : GenericPushButton_init_set(c)) /\ ButtonFrame
    \/ (\E c \in Contexts : GenericPushButton_measure(c)) /\ ButtonFrame
    \/ (\E c \in Contexts : GenericPushButton_measure_lock(c)) /\ ButtonFrame
    \/ (\E c \in Contexts : GenericPushButton_measure_read(c)) /\ ButtonFrame
    \/ (\E c \in Contexts, m \in Modes : GenericPushButton_set_mode(c, m)) /\ ButtonFrame
    \/ (\E c \in Contexts : GenericPushButton_set_mode_return(c)) /\ ButtonFrame

SpecButton == Init /\ [][ButtonNext]_vars

----------------------------------------------------------------------------
(* Specification of one Lis3dhI2c called from two contexts *)

Lis3dhFrame == UNCHANGED <<sigVars, hist, ghostVars, stVars, button, itVars, rbVars, rwVars>>

Lis3dhNext ==
    \/ (\E c \in Contexts : Lis3dhI2c_init(c)) /\ Lis3dhFrame
    \/ (\E c \in Contexts : Lis3dhI2c_init_driver(c)) /\ Lis3dhFrame
    \/ (\E c \in Contexts : Lis3dhI2c_init_initialized(c)) /\ Lis3dhFrame
    \/ (\E c \in Contexts : Lis3dhI2c_init_enabled(c)) /\ Lis3dhFrame
    \/ (\E c \in Contexts : Lis3dhI2c_read(c)) /\ Lis3dhFrame
    \/ (\E c \in Contexts : Lis3dhI2c_read_lock(c)) /\ Lis3dhFrame
    \/ (\E c \in Contexts : Lis3dhI2c_read_bus(c)) /\ Lis3dhFrame
    \/ (\E c \in Contexts, e \in BOOLEAN : Lis3dhI2c_set_enabled(c, e)) /\ Lis3dhFrame

SpecLis3dh == Init /\ [][Lis3dhNext]_vars

----------------------------------------------------------------------------
(* Specification of one driver, brought up by the start-up code and used     *)
(* from two contexts.  init is called by the start-up code only, any number  *)
(* of times; every other method is called from either context at any time,   *)
(* also while init is in progress.                                            *)

Drivers == {"GenericPushButton", "Lis3dhI2c", "InternalTemp"}
Startup == "task"

DriversInit ==
    /\ SigInit /\ HistInit /\ StDefault /\ RbNone /\ RwNone
    /\ driver \in Drivers
    /\ DrvConstructed

InternalTempFrame ==
    UNCHANGED <<sigVars, hist, ghostVars, stVars, button, accel, faulted, driver, rbVars, rwVars>>

DriversNext ==
    \/ driver = "GenericPushButton" /\ GenericPushButton_init(Startup) /\ ButtonFrame
    \/ driver = "GenericPushButton" /\ GenericPushButton_init_lock(Startup) /\ ButtonFrame
    \/ driver = "GenericPushButton" /\ GenericPushButton_init_set(Startup) /\ ButtonFrame
    \/ driver = "GenericPushButton" /\ (\E c \in Contexts : GenericPushButton_measure(c)) /\ ButtonFrame
    \/ driver = "GenericPushButton" /\ (\E c \in Contexts : GenericPushButton_measure_lock(c)) /\ ButtonFrame
    \/ driver = "GenericPushButton" /\ (\E c \in Contexts : GenericPushButton_measure_read(c)) /\ ButtonFrame
    \/ driver = "GenericPushButton" /\ (\E c \in Contexts, m \in Modes : GenericPushButton_set_mode(c, m)) /\ ButtonFrame
    \/ driver = "GenericPushButton" /\ (\E c \in Contexts : GenericPushButton_set_mode_return(c)) /\ ButtonFrame
    \/ driver = "Lis3dhI2c" /\ Lis3dhI2c_init(Startup) /\ Lis3dhFrame
    \/ driver = "Lis3dhI2c" /\ Lis3dhI2c_init_driver(Startup) /\ Lis3dhFrame
    \/ driver = "Lis3dhI2c" /\ Lis3dhI2c_init_initialized(Startup) /\ Lis3dhFrame
    \/ driver = "Lis3dhI2c" /\ Lis3dhI2c_init_enabled(Startup) /\ Lis3dhFrame
    \/ driver = "Lis3dhI2c" /\ (\E c \in Contexts : Lis3dhI2c_read(c)) /\ Lis3dhFrame
    \/ driver = "Lis3dhI2c" /\ (\E c \in Contexts : Lis3dhI2c_read_lock(c)) /\ Lis3dhFrame
    \/ driver = "Lis3dhI2c" /\ (\E c \in Contexts : Lis3dhI2c_read_bus(c)) /\ Lis3dhFrame
    \/ driver = "Lis3dhI2c" /\ (\E c \in Contexts, e \in BOOLEAN : Lis3dhI2c_set_enabled(c, e)) /\ Lis3dhFrame
    \/ driver = "InternalTemp" /\ InternalTemp_init(Startup) /\ InternalTempFrame
    \/ driver = "InternalTemp" /\ InternalTemp_init_lock(Startup) /\ InternalTempFrame
    \/ driver = "InternalTemp" /\ InternalTemp_init_spawn(Startup) /\ InternalTempFrame
    \/ driver = "InternalTemp" /\ InternalTemp_init_initialized(Startup) /\ InternalTempFrame
    \/ driver = "InternalTemp" /\ InternalTemp_init_enabled(Startup) /\ InternalTempFrame
    \/ driver = "InternalTemp" /\ (\E c \in Contexts : InternalTemp_read_main(c)) /\ InternalTempFrame
    \/ driver = "InternalTemp" /\ (\E c \in Contexts : InternalTemp_read_main_lock(c)) /\ InternalTempFrame
    \/ driver = "InternalTemp" /\ (\E c \in Contexts : InternalTemp_read_main_read(c)) /\ InternalTempFrame
    \/ driver = "InternalTemp" /\ (\E c \in Contexts, e \in BOOLEAN : InternalTemp_set_enabled(c, e)) /\ InternalTempFrame
    \/ driver = "InternalTemp" /\ (\E c \in Contexts, e \in BOOLEAN : InternalTemp_set_threshold_enabled(c, e)) /\ InternalTempFrame
    \/ driver = "InternalTemp" /\ (\E c \in Contexts : InternalTemp_receive(c)) /\ InternalTempFrame
    \/ driver = "InternalTemp" /\ temp_watcher /\ InternalTempFrame
    \/ driver = "InternalTemp" /\ temp_watcher_lock /\ InternalTempFrame
    \/ driver = "InternalTemp" /\ temp_watcher_notify /\ InternalTempFrame
    \/ driver = "InternalTemp" /\ temp_watcher_timer /\ InternalTempFrame

SpecDrivers == DriversInit /\ [][DriversNext]_vars

----------------------------------------------------------------------------
(* RingBufferIndex (lib/rbi/src/lib.rs) *)

\* The largest u8; the counters and the mask are u8.
U8_MAX == 255

\* u8::wrapping_add, u8::wrapping_sub
\* (The mutant of wrapping_add that saturates at the largest u8 precedes it.)
SaturatingAdd(a, b) == IF a + b > U8_MAX THEN U8_MAX ELSE a + b

WrappingAdd(a, b) == (a + b) % (U8_MAX + 1)
WrappingSub(a, b) == (a - b + U8_MAX + 1) % (U8_MAX + 1)

\* a & b on u8, bit by bit
RECURSIVE BitAnd(_, _)
BitAnd(a, b) ==
    IF a = 0 \/ b = 0 THEN 0
    ELSE (a % 2) * (b % 2) + 2 * BitAnd(a \div 2, b \div 2)

\* u8::is_power_of_two, u8::next_power_of_two (for arguments up to 128)
PowersOfTwo == {1, 2, 4, 8, 16, 32, 64, 128}
IsPowerOfTwo(val) == val \in PowersOfTwo
NextPowerOfTwo(val) ==
    CHOOSE p \in PowersOfTwo : p >= val /\ \A q \in PowersOfTwo : q >= val => p <= q

\* pub const fn next_smaller_power_of_two(val: u8) -> u8
next_smaller_power_of_two(val) ==
    IF IsPowerOfTwo(val) THEN val ELSE NextPowerOfTwo((val \div 2) + 1)

\* RingBufferIndex::new(size)
rbi_new(sz) == [reads |-> 0, writes |-> 0, mask |-> next_smaller_power_of_two(sz) - 1]

\* RingBufferIndex::available(): self.writes - self.reads.  The subtraction
\* panics when it overflows in a build with overflow checks and wraps in a
\* build without.
rbi_available(b) ==
    IF b.writes >= b.reads THEN b.writes - b.reads
    ELSE IF overflow_checks THEN Panic
    ELSE WrappingSub(b.writes, b.reads)

\* RingBufferIndex::is_empty(): self.writes.wrapping_sub(self.reads) == 0
\* (The mutant that never reports empty precedes it.)
NeverEmpty(b) == FALSE

rbi_is_empty(b) == WrappingSub(b.writes, b.reads) = 0

\* The comparison of is_full.
\* (The mutant that reports full one element early precedes it.)
FullOneEarly(avail, mask) == avail >= mask
\* (So does the mutant that reports full one element late.)
FullOneLate(avail, mask) == avail > mask + 1

MoreThanMask(avail, mask) == avail > mask

\* The first test of is_full: self.mask == 0
\* (The mutant without the test precedes it.)
NeverZeroSized(mask) == FALSE

ZeroSized(mask) == mask = 0

\* RingBufferIndex::is_full(): (self.mask == 0) || (self.available() > self.mask);
\* Some(bool), or Panic when available() panics.
rbi_is_full(b) ==
    IF ZeroSized(b.mask) THEN Some(TRUE)
    ELSE IF rbi_available(b) = Panic THEN <<"Panic">>
    ELSE Some(MoreThanMask(rbi_available(b), b.mask))

\* RingBufferIndex::capacity()
rbi_capacity(b) == IF b.mask > 0 THEN b.mask + 1 ELSE 0

\* The index returned for a counter.
\* (The mutant that returns the counter unmasked precedes it.)
Unmasked(counter, mask) == counter

Masked(counter, mask) == BitAnd(counter, mask)

\* A panic ends the program.
RbRunning == rbdone.ret # <<"Panic">>

\* RingBufferIndex::get()
rbi_get ==
    /\ RbRunning
    /\ IF ~rbi_is_empty(rb)
       THEN /\ rb' = [rb EXCEPT !.reads = WrappingAdd(rb.reads, 1)]
            /\ rbdone' = [op |-> "get", ret |-> Some(Masked(rb.reads, rb.mask))]
       ELSE /\ rbdone' = [op |-> "get", ret |-> None]
            /\ UNCHANGED rb
    /\ fresh' = FALSE
    /\ UNCHANGED <<size, overflow_checks>>

\* The index peek returns: self.reads & self.mask
\* (The mutant that looks at the writes counter precedes it.)
PeekAtWrites(b) == Masked(b.writes, b.mask)

PeekIndex(b) == Masked(b.reads, b.mask)

\* RingBufferIndex::peek()
rbi_peek ==
    /\ RbRunning
    /\ rbdone' = [op |-> "peek",
                  ret |-> IF ~rbi_is_empty(rb) THEN Some(PeekIndex(rb)) ELSE None]
    /\ UNCHANGED <<rb, size, overflow_checks, fresh>>

\* RingBufferIndex::put()
rbi_put ==
    /\ RbRunning
    /\ LET full == rbi_is_full(rb)
       IN IF full = <<"Panic">>
          THEN /\ rbdone' = [op |-> "put", ret |-> <<"Panic">>]
               /\ UNCHANGED rb
          ELSE IF ~full[2]
          THEN /\ rb' = [rb EXCEPT !.writes = WrappingAdd(rb.writes, 1)]
               /\ rbdone' = [op |-> "put", ret |-> Some(Masked(rb.writes, rb.mask))]
          ELSE /\ rbdone' = [op |-> "put", ret |-> None]
               /\ UNCHANGED rb
    /\ UNCHANGED <<size, overflow_checks, fresh>>

\* A call of available(), is_empty(), is_full() or capacity()
rbi_query ==
    /\ RbRunning
    /\ \/ rbdone' = [op |-> "available",
                     ret |-> IF rbi_available(rb) = Panic THEN <<"Panic">>
                             ELSE Some(rbi_available(rb))]
       \/ rbdone' = [op |-> "is_empty", ret |-> Some(rbi_is_empty(rb))]
       \/ rbdone' = [op |-> "is_full", ret |-> rbi_is_full(rb)]
       \/ rbdone' = [op |-> "capacity", ret |-> Some(rbi_capacity(rb))]
    /\ UNCHANGED <<rb, size, overflow_checks, fresh>>

\* The sizes the model creates a RingBufferIndex with
RbSizes == {0, 1, 2, 3, 4, 255}

RbFrame == UNCHANGED <<sigVars, hist, ghostVars, stVars, drvVars, rwVars>>

\* A RingBufferIndex right after new(size), in either build profile
RbCreated(sizes) ==
    /\ size \in sizes
    /\ overflow_checks \in BOOLEAN
    /\ rb = rbi_new(size)
    /\ rbdone = [op |-> "new", ret |-> None]
    /\ cycles = 0
    /\ fresh = TRUE
    /\ rbprev = rb
    /\ fifo = <<>>

RbInit == SigInit /\ HistInit /\ StDefault /\ DrvNew /\ RwNone /\ RbCreated(RbSizes)

\* The history remembers the RingBufferIndex as it was before the call.
RbTrack == rbprev' = rb /\ UNCHANGED <<cycles, fifo>>

RbNext ==
    \/ rbi_put /\ RbTrack /\ RbFrame
    \/ rbi_get /\ RbTrack /\ RbFrame
    \/ rbi_peek /\ RbTrack /\ RbFrame
    \/ rbi_query /\ RbTrack /\ RbFrame

SpecRbi == RbInit /\ [][RbNext]_vars

\* RingBufferIndex::new(size) and capacity(), for a size chosen beforehand
rbi_new_call ==
    /\ rbdone.op = "none"
    /\ rb' = rbi_new(size)
    /\ rbdone' = [op |-> "new", ret |-> Some(rbi_capacity(rb'))]
    /\ UNCHANGED <<size, overflow_checks, cycles, fresh>>

RbNewInit ==
    /\ SigInit /\ HistInit /\ StDefault /\ DrvNew /\ RwNone
    /\ size \in 0..U8_MAX
    /\ overflow_checks \in BOOLEAN
    /\ rb = [reads |-> 0, writes |-> 0, mask |-> 0]
    /\ rbdone = [op |-> "none", ret |-> None]
    /\ cycles = 0
    /\ fresh = TRUE
    /\ rbprev = rb
    /\ fifo = <<>>

RbNewNext == rbi_new_call /\ UNCHANGED <<rbprev, fifo>> /\ RbFrame

SpecRbiNew == RbNewInit /\ [][RbNewNext]_vars

\* Rounds of put() then get(), as in tests::test_with_size(size, n)
MaxCycles == 520
CycleSizes == {0, 1, 2, 4, 128, 255}

cycle_put ==
    /\ rbdone.op \in {"new", "get"}
    /\ cycles < MaxCycles
    /\ rbi_put
    /\ UNCHANGED cycles

cycle_get ==
    /\ rbdone.op = "put"
    /\ rbi_get
    /\ cycles' = cycles + 1

RbCycleInit == SigInit /\ HistInit /\ StDefault /\ DrvNew /\ RwNone /\ RbCreated(CycleSizes)

RbCycleNext ==
    \/ cycle_put /\ UNCHANGED <<rbprev, fifo>> /\ RbFrame
    \/ cycle_get /\ UNCHANGED <<rbprev, fifo>> /\ RbFrame

SpecRbiCycle == RbCycleInit /\ [][RbCycleNext]_vars

\* put and get calls in any order, with the indexes in flight remembered
fifo_put ==
    /\ rbi_put
    /\ fifo' = IF rbdone'.ret[1] = "Some" THEN Append(fifo, rbdone'.ret[2]) ELSE fifo
    /\ UNCHANGED <<cycles, rbprev>>

fifo_get ==
    /\ rbi_get
    /\ fifo' = IF rbdone'.ret[1] = "Some" /\ fifo # <<>> THEN Tail(fifo) ELSE fifo
    /\ UNCHANGED <<cycles, rbprev>>

RbFifoNext ==
    \/ fifo_put /\ RbFrame
    \/ fifo_get /\ RbFrame

SpecRbiFifo == RbInit /\ [][RbFifoNext]_vars

----------------------------------------------------------------------------
(* ReadingWaiter, held and polled by hand by the application task.  Unlike an *)
(* awaited future it is not dropped when it returns Ready, and it may be      *)
(* polled at any time.                                                        *)

\* The number of Ready results followed for one ReadingWaiter.
MaxYields == 3

\* SensorSignaling::wait_for_reading():
\* ReadingWaiter::Waiter { waiter: self.reading_channel.receive() }
ReadingWaiter_Waiter ==
    /\ pc[App] = "idle"
    /\ waiter' = [variant |-> "Waiter", err |-> "none"]
    /\ built' = waiter'
    /\ yielded' = <<>>
    /\ UNCHANGED <<sigVars, hist, ghostVars, stVars, drvVars, rbVars, signaled, delivered,
                   suspended, resumed>>

\* ReadingWaiter::Err(e), built by a driver whose wait_for_reading fails at once
ReadingWaiter_Err(e) ==
    /\ pc[App] = "idle"
    /\ waiter' = [variant |-> "Err", err |-> e]
    /\ built' = waiter'
    /\ yielded' = <<>>
    /\ UNCHANGED <<sigVars, hist, ghostVars, stVars, drvVars, rbVars, signaled, delivered,
                   suspended, resumed>>

\* core::mem::replace(dest, src): stores src in dest and returns what dest held.
\* (The mutant that returns the value it stores precedes it.)
ReplaceReturnsNew(dest, src) == [dest |-> src, ret |-> src]

MemReplace(dest, src) == [dest |-> src, ret |-> dest]

\* match this: the arm taken for each variant
\* (The mutant that sends the Err variant to the Waiter arm precedes it.)
ErrPollsChannel(variant) == IF variant = "Err" THEN "Waiter" ELSE variant

MatchArm(variant) == variant

\* <ReadingWaiter as Future>::poll
ReadingWaiter_poll ==
    /\ pc[App] = "idle"
    /\ waiter.variant # "None"
    /\ Len(yielded) < MaxYields
    /\ CASE MatchArm(waiter.variant) = "Waiter" ->
              LET r == WaiterPoll(reading_channel, App)
              IN /\ reading_channel' = r.ch
                 /\ IF r.ready
                    THEN /\ yielded' = Append(yielded, r.msg.res)
                         /\ parked' = WakeAll(parked, r.wake)
                    ELSE /\ yielded' = yielded
                         /\ parked' = Park(WakeAll(parked, r.wake), App)
                 /\ UNCHANGED <<waiter, pc>>
         [] MatchArm(waiter.variant) = "Err" ->
              LET err == MemReplace(waiter.err, "NonEnabled")
              IN /\ waiter' = [variant |-> "Resolved", err |-> "none"]
                 /\ yielded' = Append(yielded, <<"Err", err.ret>>)
                 /\ UNCHANGED <<reading_channel, parked, pc>>
         [] MatchArm(waiter.variant) = "Resolved" ->
              \* unreachable!()
              /\ pc' = [pc EXCEPT ![App] = "panicked"]
              /\ UNCHANGED <<waiter, yielded, reading_channel, parked>>
    /\ UNCHANGED <<trigger, sending, got, hist, ghostVars, stVars, drvVars, rbVars,
                   built, signaled, delivered, suspended, resumed>>

\* The history keeps every result handed to a send on reading_channel.
RecordSignaled ==
    /\ signaled' = signaled \cup {sending'.res}
    /\ UNCHANGED <<hist, stVars, drvVars, rbVars, waiter, built, yielded, delivered,
                   suspended, resumed>>

\* One application task holding a ReadingWaiter, and a driver task signaling
\* results in any order.
WaiterNext ==
    \/ ReadingWaiter_Waiter
    \/ (\E e \in ReadingErrors : ReadingWaiter_Err(e))
    \/ ReadingWaiter_poll
    \/ trigger_measurement(App, FALSE) /\ NoLog
    \/ (\E v \in Readings : signal_reading("idle", v, FALSE)) /\ RecordSignaled
    \/ (\E e \in ReadingErrors : signal_reading_err("idle", e, FALSE)) /\ RecordSignaled
    \/ poll_send /\ NoLog

SpecWaiter == Init /\ [][WaiterNext]_vars

----------------------------------------------------------------------------
(* The calling convention: the application awaits the reading of each        *)
(* trigger before it triggers again; the driver task runs its loop.          *)

\* The history counts the awaited ReadingWaiters that returned a result.
CountDelivered ==
    /\ delivered' = delivered
                    + (IF pc[App] = "wait_for_reading" /\ pc'[App] = "idle" THEN 1 ELSE 0)
    /\ UNCHANGED <<hist, stVars, drvVars, rbVars, waiter, built, yielded, signaled,
                   suspended, resumed>>

ConventionNext ==
    \/ (nTrig = delivered /\ trigger_measurement(App, FALSE)) /\ CountDelivered
    \/ (nTrig > delivered /\ wait_for_reading(App)) /\ CountDelivered
    \/ poll_reading(App) /\ CountDelivered
    \/ wait_for_trigger /\ CountDelivered
    \/ poll_trigger("measure") /\ CountDelivered
    \/ (\E v \in Readings : signal_reading("measure", v, FALSE)) /\ CountDelivered
    \/ (\E e \in ReadingErrors : signal_reading_err("measure", e, FALSE)) /\ CountDelivered
    \/ poll_send /\ CountDelivered

SpecConvention == Init /\ [][ConventionNext]_vars

----------------------------------------------------------------------------
(* The producer side: a driver task that signals results whenever it likes,  *)
(* an application task that triggers and awaits readings whenever it likes.  *)

\* The history follows the driver's pending send.
TrackSend ==
    /\ suspended' = (pc'[Driver] = "signal_reading" /\ (suspended \/ parked'[Driver]))
    /\ resumed' = (resumed \/ (suspended /\ pc[Driver] = "signal_reading"
                                         /\ pc'[Driver] = "idle"))
    /\ UNCHANGED <<hist, stVars, drvVars, rbVars, waiter, built, yielded, signaled, delivered>>

ProducerNext ==
    \/ trigger_measurement(App, FALSE) /\ TrackSend
    \/ wait_for_reading(App) /\ TrackSend
    \/ poll_reading(App) /\ TrackSend
    \/ (\E v \in Readings : signal_reading("idle", v, FALSE)) /\ TrackSend
    \/ (\E e \in ReadingErrors : signal_reading_err("idle", e, FALSE)) /\ TrackSend
    \/ poll_send /\ TrackSend

SpecProducer == Init /\ [][ProducerNext]_vars

\* The executor polls the driver task whenever it is runnable.
SpecProducerFair == SpecProducer /\ WF_vars(poll_send /\ TrackSend)

----------------------------------------------------------------------------
(* Claims about SensorSignaling *)

IsSignal(e) == e[1] = "signal"
IsReading(e) == e[1] = "reading"

\* C1: whenever the last completed calls on the instance are signal_reading(A),
\* trigger_measurement(), signal_reading(B), wait_for_reading() -> x, then x is
\* B; and right after a trigger_measurement() the slot holds no result: the
\* trigger has discarded the unread one.
C1_TriggerDiscardsUnread ==
    /\ \A i \in 1..(Len(hist) - 3) :
          ( /\ IsSignal(hist[i])
            /\ hist[i + 1] = <<"trigger">>
            /\ IsSignal(hist[i + 2])
            /\ IsReading(hist[i + 3]) )
          => hist[i + 3][2] = hist[i + 2][2]
    /\ (hist # <<>> /\ hist[Len(hist)] = <<"trigger">>) => reading_channel.queue = <<>>

\* C1 witness: signal_reading(A), trigger, signal_reading(B), then a wait that
\* yielded B, with A different from B.
C1_Witness ==
    /\ Len(hist) >= 4
    /\ LET n == Len(hist)
       IN /\ hist[n - 3] = <<"signal", <<"Ok", "A">>>>
          /\ hist[n - 2] = <<"trigger">>
          /\ hist[n - 1] = <<"signal", <<"Ok", "B">>>>
          /\ hist[n] = <<"reading", <<"Ok", "B">>>>

\* C2 as stated: for any trigger_measurement call (the tracked one), the next
\* wait_for_reading called after it returns the first reading signaled after it.
C2_Original == trkWait = "done" => trkGot

\* C2 amended: the same, when no further trigger_measurement is issued between
\* the tracked trigger and the completion of that wait.
C2_NoReorderingSinceLatestTrigger == (trkWait = "done" /\ trkClean) => trkGot

\* C2 witness: the wait after the tracked trigger has returned the first
\* reading signaled after it, after an earlier trigger of the application.
C2_Witness == trkWait = "done" /\ trkClean /\ trkGot /\ nTrig >= 2

\* C3 as stated: a wait_for_reading never yields the result of a measurement
\* the driver started before the latest trigger_measurement.
C3_Original == ~got[App].stale

\* C3 amended: a wait_for_reading never yields a result that was placed in the
\* slot before the latest trigger_measurement.
C3_NoResultFromBeforeTrigger == ~got[App].old

\* C3 witness: the application received, after a trigger, the result of a
\* measurement started before that trigger and signaled after it.
C3_Witness == got[App] # NoMsg /\ got[App].stale /\ ~got[App].old

\* C4: the result channel never holds more than one result.
C4_AtMostOneResult == Len(reading_channel.queue) <= 1

\* C4 witness: a result is in the slot while the driver is suspended in a
\* second signal_reading.
C4_Witness ==
    /\ Len(reading_channel.queue) = 1
    /\ pc[Driver] = "signal_reading"
    /\ parked[Driver]

\* C5: the marked result is returned by at most one ReadingWaiter completion,
\* and at most one application task holds it.
C5_NoDuplication ==
    /\ markDeliveries <= 1
    /\ Cardinality({t \in {App, App2} : got[t].mark}) <= 1

\* C5 witness: both tasks were waiting, one received the marked result and the
\* other is still suspended on the empty slot.
C5_Witness ==
    /\ markDeliveries = 1
    /\ got[App].mark
    /\ pc[App2] = "wait_for_reading"
    /\ parked[App2]
    /\ reading_channel.queue = <<>>

\* C6: under weak fairness of both tasks, the first wait_for_reading called
\* after a trigger_measurement eventually resolves.
C6_WaitEventuallyResolves == (trkWait = "called") ~> (trkWait = "done")

\* C6 witness: the wait was suspended on the empty slot and has resolved.
C6_Witness == trkWait = "done" /\ got[App] # NoMsg /\ nWake >= 1

CaughtUp == trigger.state = "Waiting" /\ pc[Driver] = "wait_for_trigger" /\ parked[Driver]

\* C7 as stated: once the driver has caught up with the pending wake-ups, the
\* number of wait_for_trigger completions equals the number of triggers.
C7_Original == CaughtUp => nWake = nTrig

\* C7 amended: once no wake is pending, the number of wait_for_trigger
\* completions equals the number of trigger_measurement calls that were issued
\* while no earlier wake was pending; it never exceeds the number of triggers.
C7_OneWakePerUncoalescedTrigger ==
    /\ nWake <= nTrig
    /\ trigger.state # "Signaled" => nWake = nTrig - nCoalesced

\* C7 witness: the driver has caught up after three triggers, two of which
\* were coalesced into one wake.
C7_Witness == CaughtUp /\ nTrig = 3 /\ nCoalesced = 1 /\ nWake = 2

\* C8: trigger_measurement is never blocked, and the triggers issued before
\* the driver completes wait_for_trigger cause one completion: after it no
\* wake is pending, and no second completion happens before another trigger.
C8_NoQueuedWakeups ==
    /\ wakesSinceTrig <= 1
    /\ wakesSinceTrig = 1 => trigger.state # "Signaled"
    /\ (pc[App] = "idle" /\ nTrig < MaxTriggers) => ENABLED trigger_measurement(App, FALSE)

\* C8 witness: two triggers were consumed by one completion and the driver is
\* suspended in the next wait_for_trigger.
C8_Witness == lastBatch >= 2 /\ wakesSinceTrig = 1 /\ CaughtUp

----------------------------------------------------------------------------
(* Claims about StateAtomic *)

\* C9: a set_mode call that finds the stored state Uninitialized returns
\* State::Uninitialized and stores nothing: the stored state is still
\* Uninitialized right after it.
C9_SetModeBlockedWhenUninitialized ==
    (done.op = "set_mode" /\ done.pre = Uninitialized)
        => /\ done.ret = Uninitialized
           /\ ~done.wrote
           /\ done.post = Uninitialized

\* C9 witness: a set_mode call has met the Uninitialized state and returned.
C9_Witness ==
    /\ done.op = "set_mode"
    /\ done.pre = Uninitialized
    /\ done.ret = Uninitialized
    /\ state = Uninitialized

\* C10: a set_mode(m) call that finds the stored state Disabled, Enabled or
\* Sleeping stores State::from(m) and returns it, and a get() that follows
\* returns the same state.
C10_SetModeSucceedsWhenInitialized ==
    (done.op = "set_mode" /\ done.pre \in {Disabled, Enabled, Sleeping})
        => /\ done.arg = "Disabled" => done.ret = Disabled
           /\ done.arg = "Enabled" => done.ret = Enabled
           /\ done.arg = "Sleeping" => done.ret = Sleeping
           /\ done.wrote
           /\ done.post = done.ret
           /\ GetValue(state) = done.ret

\* C10 witness: set_mode(Sleeping) has met the Enabled state and the stored
\* state is now Sleeping.
C10_Witness ==
    /\ done.op = "set_mode"
    /\ done.arg = "Sleeping"
    /\ done.pre = Enabled
    /\ done.ret = Sleeping
    /\ state = Sleeping

\* C14: the step in which a set_mode call returns never replaces a stored
\* Uninitialized byte, whatever set and set_mode calls of the other context
\* came between its load and its write; when it returns a state other than
\* Uninitialized, the stored byte was not Uninitialized at that instant and is
\* that state right after it; when it returns Uninitialized it stored nothing.
C14_GateAndWriteAtomic ==
    [][\A c \in Contexts :
          (call[c].op = "set_mode" /\ call'[c].op = "none")
              => /\ state = Uninitialized => state' = Uninitialized
                 /\ done'.ret # Uninitialized
                       => (state # Uninitialized /\ state' = done'.ret /\ done'.wrote)
                 /\ done'.ret = Uninitialized => state' = state]_vars

\* C14 witness: a set_mode call loaded an initialized state, the other context
\* stored Uninitialized before its compare-exchange, it tried again and was
\* refused; the stored state is still Uninitialized.
C14_Witness ==
    /\ done.op = "set_mode"
    /\ done.retried
    /\ done.ret = Uninitialized
    /\ state = Uninitialized

----------------------------------------------------------------------------
(* Claims about the drivers *)

\* C11: once the state of a GenericPushButton is not Uninitialized, no step of
\* an init or set_mode call, from either context, makes it Uninitialized: the
\* next state is Disabled, Enabled or Sleeping.
C11_NeverBackToUninitialized ==
    [][state # Uninitialized => state' \in {Disabled, Enabled, Sleeping}]_vars

\* C11 witness: the driver was initialized, set_mode(Sleeping) was applied and
\* a later init call found the state Sleeping and left it.
C11_Witness ==
    /\ state = Sleeping
    /\ ddone.op = "init"
    /\ ddone.pre = Sleeping

\* C12 as stated: a successful Sensor::set_mode returns the state the driver
\* was in immediately before the call.
C12_Original ==
    (ddone.op = "set_mode" /\ ddone.ret[1] = "Ok") => ddone.ret[2] = ddone.pre

\* C13: the step in which GenericPushButton::set_mode returns yields
\* Err(ModeSettingError::Uninitialized) exactly when the state the call acted
\* on is Uninitialized, and then leaves the stored state as it is; it yields Ok
\* otherwise.
C13_SetModeErrIffUninitialized ==
    [][\A c \in Contexts :
          (call[c].op = "set_mode" /\ call'[c].op = "none")
              => /\ ddone'.op = "set_mode"
                 /\ ddone'.ret[1] = "Err" <=> call[c].prev = Uninitialized
                 /\ ddone'.ret[1] = "Err" => (ddone'.ret[2] = "Uninitialized" /\ state' = state)
                 /\ ddone'.ret[1] # "Err" => ddone'.ret[1] = "Ok"]_vars

\* C13 witness: set_mode was called on a driver that was never initialized and
\* returned the error; the state is still Uninitialized.
C13_Witness ==
    /\ ddone.op = "set_mode"
    /\ ddone.ret[1] = "Err"
    /\ ddone.pre = Uninitialized
    /\ state = Uninitialized

\* C15 as stated: a measurement request to a driver that is not enabled is
\* answered with the NonEnabled error, without taking the lock of the hardware
\* handle and without an access to the pin or the bus.
C15_Original ==
    (ddone.op = "read" /\ ~ddone.en)
        => /\ ddone.ret[1] = "Err"
           /\ ddone.ret[2] = "NonEnabled"
           /\ ~ddone.lock
           /\ ~ddone.hw

\* What does hold of both drivers: the request is refused with the error the
\* driver names (NonEnabled in GenericPushButton, Disabled in Lis3dhI2c) and the
\* hardware handle is left alone.
PushButtonRefusesWithoutHardware ==
    (ddone.op = "measure" /\ ddone.pre # Enabled)
        => /\ ddone.ret = <<"Err", "NonEnabled">>
           /\ ~ddone.lock
           /\ ~ddone.hw

Lis3dhRefusesWithoutHardware ==
    (ddone.op = "read" /\ ~ddone.en)
        => /\ ddone.ret = <<"Err", "Disabled">>
           /\ ~ddone.lock
           /\ ~ddone.hw

\* C16: the step in which a read of Lis3dhI2c returns after a failed bus
\* transaction yields Err(ReadingError::SensorAccess), changes neither flag of
\* the driver and releases the hardware handle, so that a later read reaches
\* the bus again.
C16_BusFailureIsSensorAccess ==
    [][\A c \in Contexts :
          (dpc[c] = "read_bus" /\ dpc'[c] = "idle" /\ ddone'.bus = "Err")
              => /\ ddone'.ret[1] = "Err"
                 /\ ddone'.ret[2] = "SensorAccess"
                 /\ enabled' = enabled
                 /\ initialized' = initialized
                 /\ accel'.value = "Some"
                 /\ ~accel'.locked]_vars

\* C16 witness: a read made after an earlier bus failure reached the bus,
\* failed again with SensorAccess, and the driver is still enabled.
C16_Witness ==
    /\ ddone.op = "read"
    /\ ddone.prior
    /\ ddone.bus = "Err"
    /\ ddone.ret = <<"Err", "SensorAccess">>
    /\ enabled
    /\ ~accel.locked

----------------------------------------------------------------------------
(* Claims about RingBufferIndex *)

\* The largest power of two that is at most n, and 0 for n = 0
LargestPowerOfTwoAtMost(n) ==
    IF n = 0 THEN 0
    ELSE CHOOSE p \in {1, 2, 4, 8, 16, 32, 64, 128} :
            p <= n /\ \A q \in {1, 2, 4, 8, 16, 32, 64, 128} : q <= n => q <= p

\* C17 as stated: for every size in 0..=255 the capacity of
\* RingBufferIndex::new(size) is the largest power of two that is at most
\* size, and 0 for size 0.
C17_Original ==
    rbdone.op = "new" => rbdone.ret = Some(LargestPowerOfTwoAtMost(size))

\* What does hold: the same for every size other than 1.
CapacityExceptSizeOne ==
    (rbdone.op = "new" /\ size # 1) => rbdone.ret = Some(LargestPowerOfTwoAtMost(size))

C19_Original ==
    /\ rbi_available(rb) = WrappingSub(rb.writes, rb.reads)
    /\ rbi_is_full(rb) # <<"Panic">>
    /\ rbdone.ret # <<"Panic">>

\* What does hold: the same in a build without overflow checks.
WrapsWithoutOverflowChecks == ~overflow_checks => C19_Original

\* C20: in rounds of put() then get() on a RingBufferIndex of capacity above
\* 0, the put and the get of round i (counted from 0) both return
\* i mod capacity, also after the counters have wrapped.
C20_WraparoundRepeats ==
    rbi_capacity(rb) > 0
        => /\ rbdone.op = "put" => rbdone.ret = Some(cycles % rbi_capacity(rb))
           /\ rbdone.op = "get" => rbdone.ret = Some((cycles - 1) % rbi_capacity(rb))

\* C20 witness: on RingBufferIndex::new(255), the get of round 299, after the
\* counters wrapped at 256, returned 299 mod 128 = 43.
C20_Witness ==
    /\ size = 255
    /\ cycles = 300
    /\ rb.reads = 44
    /\ rbdone = [op |-> "get", ret |-> Some(43)]

\* C21: in any interleaving of put and get calls, a get that returns an index
\* returns the oldest index returned by a put and not yet returned by a get:
\* the k-th successful get returns the index of the k-th successful put.
C21_FifoOrder ==
    [][(rbdone'.op = "get" /\ rbdone'.ret[1] = "Some" /\ rb' # rb)
          => (fifo # <<>> /\ rbdone'.ret[2] = Head(fifo))]_vars

\* C21 witness: on RingBufferIndex::new(4) the reads counter has wrapped to 0
\* with the get that returned index 3, and two indexes put later are in flight.
C21_Witness ==
    /\ size = 4
    /\ rb.reads = 0
    /\ rbdone = [op |-> "get", ret |-> Some(3)]
    /\ fifo = <<0, 1>>

\* C22: when a put was made on an empty buffer that was not full and a get
\* follows it immediately, the put returned an index, the get returns the same
\* index and the buffer is empty again.
C22_PutGetRoundTrip ==
    [][(/\ rbdone.op = "put"
        /\ rbi_is_empty(rbprev)
        /\ rbi_is_full(rbprev) = Some(FALSE)
        /\ rbdone'.op = "get")
          => /\ rbdone.ret[1] = "Some"
             /\ rbdone'.ret = rbdone.ret
             /\ rbi_is_empty(rb')]_vars

\* C22 witness: on RingBufferIndex::new(255) both counters were 255, the put
\* and the get that followed returned index 127, and both counters are 0 now.
C22_Witness ==
    /\ size = 255
    /\ rbprev = [reads |-> 255, writes |-> 0, mask |-> 127]
    /\ rb = [reads |-> 0, writes |-> 0, mask |-> 127]
    /\ rbdone = [op |-> "get", ret |-> Some(127)]

\* C23: RingBufferIndex::new(0) is full and empty in every reachable state,
\* its counters stay 0, and put, get and peek return None.
C23_ZeroSized ==
    size = 0
        => /\ rbi_is_full(rb) = Some(TRUE)
           /\ rbi_is_empty(rb)
           /\ rb = [reads |-> 0, writes |-> 0, mask |-> 0]
           /\ rbdone.op \in {"put", "get", "peek"} => rbdone.ret = None

\* C23 witness: a put on RingBufferIndex::new(0) returned None after a get.
C23_Witness ==
    /\ size = 0
    /\ ~fresh
    /\ rbdone = [op |-> "put", ret |-> None]

C25_PeekIsNextGet ==
    [][/\ rbdone'.op = "peek"
             => /\ rb' = rb
                /\ rbdone'.ret = IF rbi_is_empty(rb) THEN None
                                 ELSE Some(BitAnd(rb.reads, rb.mask))
       /\ (rbdone.op = "peek" /\ rbdone'.op = "get") => rbdone'.ret = rbdone.ret]_vars

\* C25 witness: on RingBufferIndex::new(4) holding indexes 3 and 0 after the
\* reads counter passed 255, a peek returned index 3 and left the counters.
C25_Witness ==
    /\ size = 4
    /\ rbprev = [reads |-> 255, writes |-> 1, mask |-> 3]
    /\ rb = rbprev
    /\ rbdone = [op |-> "peek", ret |-> Some(3)]


----------------------------------------------------------------------------
(* Claims about ReadingWaiter *)

\* C26: a ReadingWaiter built as an immediate error holding e returns Err(e)
\* with the original e on its first poll, is in the Resolved state afterwards,
\* and no later poll returns a second value.
C26_ImmediateErrorResolvesOnce ==
    built.variant = "Err" =>
        /\ waiter.variant \in {"Err", "Resolved"}
        /\ waiter.variant = "Err" => (waiter = built /\ yielded = <<>>)
        /\ waiter.variant = "Resolved" => yielded = << <<"Err", built.err>> >>

\* The waiter held SensorAccess, returned it, and was polled once more.
C26_Witness ==
    /\ built = [variant |-> "Err", err |-> "SensorAccess"]
    /\ waiter.variant = "Resolved"
    /\ yielded = << <<"Err", "SensorAccess">> >>
    /\ pc[App] = "panicked"

\* C27 as stated: a ReadingWaiter returned by wait_for_reading that has
\* returned a result is in the Resolved state and returns no second result.
C27_Original ==
    built.variant = "Waiter" =>
        /\ Len(yielded) <= 1
        /\ yielded # <<>> => waiter.variant = "Resolved"


\* The state of the instance as the pair (wake signal, result slot) shows it;
\* a trigger stays in progress while the driver task measures and sends.
WakeSignaled == trigger.state = "Signaled"
SlotFull == reading_channel.queue # <<>>
Phase ==
    IF SlotFull THEN "ResultPending"
    ELSE IF WakeSignaled \/ pc[Driver] \in {"measure", "signal_reading"} THEN "Triggered"
    ELSE "Idle"

C29_ProducerBackpressure ==
    /\ []((pc[Driver] = "signal_reading" /\ parked[Driver]) => SlotFull)
    /\ [][/\ (pc[Driver] = "signal_reading" /\ pc'[Driver] = "idle")
             => /\ ~SlotFull
                /\ Len(reading_channel'.queue) = 1
                /\ reading_channel'.queue[1].res = sending.res
          /\ (pc[Driver] = "signal_reading" /\ ~parked[Driver] /\ parked'[Driver])
             => /\ SlotFull
                /\ reading_channel'.queue = reading_channel.queue
                /\ sending' = sending]_vars
    /\ (pc[Driver] = "signal_reading" /\ ~SlotFull) ~> (pc[Driver] = "idle")

\* A producer that was suspended has stored "B" after the application
\* received "A".
C29_Witness ==
    /\ resumed
    /\ pc[Driver] = "idle"
    /\ SlotFull /\ reading_channel.queue[1].res = <<"Ok", "B">>
    /\ got[App].res = <<"Ok", "A">>
    /\ nTrig >= 1


\* C30: a ReadingWaiter returned by wait_for_reading returns only results that
\* were passed to signal_reading or signal_reading_err, and while the slot is
\* empty no poll of it returns a result; with no result ever signaled it has
\* returned nothing.
C30_ResolvesOnlyWithSignaled ==
    /\ [](built.variant = "Waiter" => \A i \in 1..Len(yielded) : yielded[i] \in signaled)
    /\ [][(waiter.variant = "Waiter" /\ ~SlotFull) => Len(yielded') <= Len(yielded)]_vars

\* The waiter returned the one result signaled so far and, polled again on the
\* empty slot, is pending.
C30_Witness ==
    /\ built.variant = "Waiter"
    /\ signaled = {<<"Err", "SensorAccess">>}
    /\ yielded = << <<"Err", "SensorAccess">> >>
    /\ ~SlotFull /\ pc[Driver] = "idle"
    /\ parked[App]


----------------------------------------------------------------------------
(* Further claims about StateAtomic *)

\* C33: the byte stored in a StateAtomic is always one of 0..=3, State::try_from
\* decodes it, no get() has panicked, and State::try_from rejects every byte
\* from 4 to 255.
C33_StoredByteIsAState ==
    /\ state \in 0..3
    /\ StateTryFrom(state)[1] = "Ok"
    /\ done.op = "get" => done.ret \in {Uninitialized, Disabled, Enabled, Sleeping}
    /\ \A byte \in 4..U8_MAX : StateTryFrom(byte) = <<"Err", "TryFromIntError">>

\* A get() decoded the byte 3 that a set_mode(Sleeping) had stored.
C33_Witness ==
    /\ done.op = "get"
    /\ done.pre = 3
    /\ done.ret = Sleeping
    /\ \E c \in Contexts : call[c].op = "set_mode"

\* C34: a get() that directly follows new(s) or set(s) returns s, and every
\* set(s) stores s whatever the state was before.
C34_SetGetRoundTrip ==
    [][/\ (done.op = "set" /\ done'.op = "get") => done'.ret = done.arg
       /\ (done.op = "none" /\ done'.op = "get") => done'.ret = state
       /\ (done'.op = "set" /\ done' # done) => state' = done'.arg]_vars

\* set(Sleeping) was stored over Uninitialized.
C34_Witness ==
    /\ done.op = "set"
    /\ done.pre = Uninitialized
    /\ done.arg = Sleeping
    /\ state = Sleeping


----------------------------------------------------------------------------
(* Further claims about RingBufferIndex *)

----------------------------------------------------------------------------
(* Further claims about ReadingWaiter *)

\* C40: the poll that resolves an immediate-error ReadingWaiter changes neither
\* the result slot nor the wake signal nor the tasks waiting on them, and a
\* result that is in the slot is what the next poll of a ReadingWaiter built
\* by wait_for_reading returns.
C40_ImmediateErrorLeavesInstance ==
    [][/\ (built.variant = "Err" /\ Len(yielded') > Len(yielded))
          => /\ reading_channel' = reading_channel
             /\ trigger' = trigger
             /\ parked' = parked
             /\ sending' = sending
       /\ (built.variant = "Waiter" /\ Len(yielded') > Len(yielded))
          => /\ SlotFull
             /\ yielded' = Append(yielded, reading_channel.queue[1].res)]_vars

\* An immediate error was resolved while a reading was in the slot and a
\* trigger was pending.
C40_Witness ==
    /\ built = [variant |-> "Err", err |-> "NonEnabled"]
    /\ waiter.variant = "Resolved"
    /\ yielded = << <<"Err", "NonEnabled">> >>
    /\ SlotFull /\ reading_channel.queue[1].res = <<"Ok", "A">>
    /\ WakeSignaled


----------------------------------------------------------------------------
(* Claims about the bring-up of the drivers *)

\* C31: an init that finds the driver Uninitialized (not initialized) stores
\* the hardware handle, once, and leaves the driver Enabled; once the driver
\* has left that state no init stores a handle or changes the state again: the
\* state of a GenericPushButton then changes only by a set_mode, the enabled
\* flag of a Lis3dhI2c only by a set_enabled.
C31_BringUpOnce ==
    [][/\ driver = "GenericPushButton"
          => /\ (dpc[Startup] = "init_lock" /\ dpc'[Startup] = "init_set")
                => (state = Uninitialized /\ button.value = "None" /\ button'.value = "Some")
             /\ (dpc[Startup] = "init_set" /\ dpc'[Startup] = "idle")
                => (state = Uninitialized /\ state' = Enabled /\ button'.value = "Some")
             /\ state # Uninitialized
                => /\ button' = button \/ \E c \in Contexts : dpc[c] \in {"measure_lock", "measure_read"}
                   /\ button'.value = button.value
                   /\ dpc'[Startup] \notin {"init_lock", "init_set"}
                   /\ state' # state => \E c \in Contexts : call[c].op = "set_mode"
       /\ driver = "Lis3dhI2c"
          => /\ (dpc[Startup] = "init_driver" /\ dpc'[Startup] = "init_initialized")
                => (~initialized /\ accel.value = "None" /\ accel'.value = "Some")
             /\ (dpc[Startup] = "init_enabled" /\ dpc'[Startup] = "idle")
                => (initialized' /\ enabled' /\ accel'.value = "Some")
             /\ (initialized /\ dpc[Startup] # "init_enabled")
                => /\ accel'.value = accel.value
                   /\ initialized'
                   /\ dpc'[Startup] \notin {"init_driver", "init_initialized", "init_enabled"}
                   /\ enabled' # enabled => ddone'.op = "set_enabled"]_vars

\* A repeated init found the push button Disabled and left it Disabled.
C31_Witness ==
    /\ driver = "GenericPushButton"
    /\ ddone.op = "init"
    /\ ddone.pre = Disabled
    /\ ~ddone.lock
    /\ state = Disabled
    /\ button.value = "Some"


\* C32: whenever init is about to take the lock of the hardware handle with
\* try_lock, no guard is held, and no init has panicked on it; a task that
\* holds or awaits the lock has seen the driver enabled, which init makes it
\* only after its try_lock.
C32_TryLockNeverFails ==
    /\ (driver = "GenericPushButton" /\ dpc[Startup] = "init_lock") => ~button.locked
    /\ (driver = "Lis3dhI2c" /\ dpc[Startup] = "init_driver") => ~accel.locked
    /\ (driver = "InternalTemp" /\ dpc[Startup] = "init_lock") => ~temp.locked
    /\ (ddone.op = "init" /\ ddone.ret = <<"Panic">>) => ddone.bus = "Err"
    /\ (\E c \in Contexts : dpc[c] \in {"measure_lock", "measure_read"}) => state # Uninitialized
    /\ (\E c \in Contexts : dpc[c] \in {"read_lock", "read_bus", "read_temp"}) => initialized
    /\ wpc \in {"read_lock", "read_temp"} => initialized

\* InternalTemp::init holds the guard it took with try_lock after a
\* measurement was refused and while the threshold is switched on.
C32_Witness ==
    /\ driver = "InternalTemp"
    /\ dpc[Startup] = "init_spawn"
    /\ temp.locked
    /\ lower_threshold_enabled
    /\ ddone.op = "read"
    /\ ddone.ret = <<"Err", "Disabled">>

\* C36: in Lis3dhI2c and InternalTemp the enabled flag is never set while the
\* initialized flag is clear, in the states between the two stores of init
\* and after a set_enabled made before init stored initialized alike.
C36_EnabledImpliesInitialized ==
    /\ enabled => initialized
    /\ (ddone.op = "set_enabled" /\ ~initialized) => ~enabled

\* set_enabled(true) returned while init had taken the lock and not yet
\* stored initialized.
C36_Witness ==
    /\ driver = "InternalTemp"
    /\ dpc[Startup] = "init_initialized"
    /\ ddone.op = "set_enabled"
    /\ ddone.arg = TRUE
    /\ ~initialized
    /\ ~enabled

\* C37: the hardware handle is stored whenever the driver lets measurements
\* through (state not Uninitialized in GenericPushButton, enabled set in
\* Lis3dhI2c and InternalTemp) and whenever a task holds or awaits its lock,
\* and no measurement has panicked on an empty handle.
C37_HandlePresentWhenEnabled ==
    /\ state # Uninitialized => button.value = "Some"
    /\ (driver = "Lis3dhI2c" /\ enabled) => accel.value = "Some"
    /\ (driver = "InternalTemp" /\ enabled) => temp.value = "Some"
    /\ (driver = "InternalTemp" /\ wpc \in {"read_lock", "read_temp"}) => temp.value = "Some"
    /\ (ddone.op \in {"measure", "read"} /\ ddone.ret = <<"Panic">>) => ddone.hw

\* A Lis3dhI2c read unwrapped the handle and returned a sample while the
\* other context was waiting for the lock.
C37_Witness ==
    /\ driver = "Lis3dhI2c"
    /\ ddone.op = "read"
    /\ ddone.ret[1] = "Ok"
    /\ \E c \in Contexts : dpc[c] = "read_lock"

\* C39 as stated: after a set_enabled(false) has stored false, the enabled
\* flag becomes true only by a set_enabled(true).
C39_Original ==
    [][(ddone.op = "set_enabled" /\ ddone.arg = FALSE /\ initialized /\ ~enabled /\ enabled')
          => (ddone'.op = "set_enabled" /\ ddone'.arg = TRUE)]_vars

\* C35: a notification that temp_watcher cannot queue because the channel
\* holds one is dropped: the step leaves the channel as it is, panics nothing
\* and takes the task to its timer; the step is never held up, and the channel
\* never holds more than one notification.
C35_FullChannelDropsNotification ==
    /\ [](Len(channel) <= NotificationCap)
    /\ []((wpc = "read_temp" /\ Running) => ENABLED temp_watcher_notify)
    /\ [][(wpc = "read_temp" /\ wpc' # wpc /\ Len(channel) = NotificationCap)
             => /\ channel' = channel
                /\ wpc' = "sleep"
                /\ dpc' = dpc
                /\ wdone' \in {"dropped", "below"}]_vars
    /\ [][(wpc = "sleep" /\ wpc' # wpc) => wpc' = "loop"]_vars

\* temp_watcher dropped a notification and is waiting for its timer.
C35_Witness ==
    /\ driver = "InternalTemp"
    /\ wdone = "dropped"
    /\ wpc = "sleep"
    /\ channel = <<"Threshold(Lower)">>

====
